---------------------------- MODULE Spec2Model ----------------------------
(***************************************************************************)
(* A model of the package bundling orchestrator (scripts/src/pkg/bundle):  *)
(* the watch-mode and one-shot drivers, package analysis, the generator    *)
(* adapter and the resolver plugins.                                       *)
(*                                                                         *)
(* Strings are sequences of one-character strings, so that the regular     *)
(* expressions and string operations of the source are computed, not       *)
(* assumed.                                                                *)
(***************************************************************************)
EXTENDS Integers, Sequences, FiniteSets, TLC

\* ------------------------------------------------------------------------
\* Bounds of the model
\* ------------------------------------------------------------------------

\* longest import specifier enumerated exhaustively over IdAlphabet
MaxIdLen == 3

VARIABLES
  input,    \* pure-function specifications: the arguments of the call
  output,   \* pure-function specifications: the result, NotCalled before
  isDev,    \* args.indexOf('--dev') !== -1
  isWatch,  \* args.indexOf('--watch') !== -1
  pkg,      \* the package on disk: manifest, source files, generator modules
  proc,     \* the process: "running", or "exited" after process.exit(1)
  result,   \* the promise the script returns: "pending" | "fulfilled" | "rejected"
  analyzePc,            \* analyzePkg: "idle" | "reading" | "resolving" | "returned" | "thrown"
  task,                 \* analyzePkg: entry identifier -> its resolution's position
  relSrcPathMap,        \* analyzePkg: in insertion order, [entryId, relSrcPaths]
  entryContentMap,      \* analyzePkg: expanded entry identifier -> text
  iifeEntryContentMap,  \* analyzePkg: expanded entry identifier -> text
  modules,  \* bundleModules: its position and the state of its two writes
  iifes,    \* bundleIifes: pass -> its position
  types,    \* bundleTypes: its position
  writes,   \* [by, path]: the output files each bundler invocation writes
  srcJsonWatcher,  \* watch mode: the chokidar watcher on package.json, "open" | "closed"
  rollupWatchers,  \* watch mode: the RollupWatcher list of the closure
  openSessions,    \* watch mode: the bundler watch sessions that are open
  handlers,        \* watch mode: the 'all' handlers awaiting analyzePkg, [ev, package]
  changes,         \* watch mode: manifest events emitted so far
  failed,          \* watch mode: the events whose handler rejected (the error is printed)
  unhandledRejections  \* the runtime's mode for unhandled rejections: "throw" | "warn"

pureVars == <<input, output>>
buildVars == <<isDev, isWatch, pkg, proc, result, analyzePc, task, relSrcPathMap,
               entryContentMap, iifeEntryContentMap, modules, iifes, types, writes>>
watchVars == <<srcJsonWatcher, rollupWatchers, openSessions, handlers, changes, failed,
               unhandledRejections>>
vars == <<pureVars, buildVars, watchVars>>

NotCalled == [called |-> FALSE]

\* the state of the variables a specification does not use
PureIdle == input = NotCalled /\ output = NotCalled

ModulesIdle == [pc |-> "idle", esm |-> "none", cjs |-> "none"]
TypesIdle == [pc |-> "idle"]

BuildIdle ==
  /\ isDev = FALSE /\ isWatch = FALSE /\ pkg = [absent |-> TRUE]
  /\ proc = "running" /\ result = "pending"
  /\ analyzePc = "idle" /\ task = <<>>
  /\ relSrcPathMap = <<>> /\ entryContentMap = <<>> /\ iifeEntryContentMap = <<>>
  /\ modules = ModulesIdle /\ iifes = <<>> /\ types = TypesIdle
  /\ writes = {}

WatchIdle ==
  /\ srcJsonWatcher = "closed" /\ rollupWatchers = <<>> /\ openSessions = {}
  /\ handlers = {} /\ changes = 0 /\ failed = {} /\ unhandledRejections = "throw"

\* ------------------------------------------------------------------------
\* Strings
\* ------------------------------------------------------------------------

Lower ==
  {"a","b","c","d","e","f","g","h","i","j","k","l","m",
   "n","o","p","q","r","s","t","u","v","w","x","y","z"}

\* all strings over alphabet of length lo..hi
StrsOver(alphabet, lo, hi) == UNION {[1..n -> alphabet] : n \in lo..hi}

\* s.substring(from - 1), 1-based
Drop(s, n) == SubSeq(s, n + 1, Len(s))
Take(s, n) == SubSeq(s, 1, n)

StartsWith(s, p) == Len(p) <= Len(s) /\ Take(s, Len(p)) = p
EndsWith(s, p) == Len(p) <= Len(s) /\ Drop(s, Len(s) - Len(p)) = p

\* s.indexOf(p), 1-based; 0 when p does not occur (JS: -1)
IndexOf(s, p) ==
  LET hits == {i \in 1..(Len(s) - Len(p) + 1) : SubSeq(s, i, i + Len(p) - 1) = p}
  IN IF hits = {} THEN 0 ELSE CHOOSE i \in hits : \A j \in hits : i <= j


\* ------------------------------------------------------------------------
\* Resolver outcomes of the bundler's plugin protocol
\* ------------------------------------------------------------------------

\* a hook returning undefined: the specifier falls through to the next plugin
Deferred == [claimed |-> FALSE]
\* { id, external: true }
External(id) == [claimed |-> TRUE, external |-> TRUE, id |-> id]
\* a plain path string
ResolvedTo(path) == [claimed |-> TRUE, external |-> FALSE, id |-> path]

\* ------------------------------------------------------------------------
\* externalize-deps
\* ------------------------------------------------------------------------

\* the character class [a-z-.]
PkgNameClass == Lower \cup {"-", "."}

\* length of the longest run of [a-z-.] characters of s that starts at index i
RECURSIVE ClassRun(_, _)
ClassRun(s, i) ==
  IF i <= Len(s) /\ s[i] \in PkgNameClass THEN 1 + ClassRun(s, i + 1) ELSE 0

NoMatch == [matched |-> FALSE]
Match(s) == [matched |-> TRUE, str |-> s]

\* importId.match(/^(@[a-z-.]+\/)?[a-z-.]+/): the optional scope group is tried
\* first (greedy); when it or the name after it fails, the name alone is tried at
\* index 1, which fails on "@"
extractPkgName(importId) ==
  LET r1 == ClassRun(importId, 2)
      r2 == ClassRun(importId, 3 + r1)
      r0 == ClassRun(importId, 1)
  IN IF /\ Len(importId) >= 1 /\ importId[1] = "@"
        /\ r1 >= 1
        /\ 2 + r1 <= Len(importId) /\ importId[2 + r1] = "/"
        /\ r2 >= 1
     THEN Match(Take(importId, 2 + r1 + r2))
     ELSE IF r0 >= 1 THEN Match(Take(importId, r0)) ELSE NoMatch

\* property names every object literal inherits from Object.prototype
ObjectPrototypeKeys ==
  { <<"c","o","n","s","t","r","u","c","t","o","r">>,
    <<"t","o","S","t","r","i","n","g">>,
    <<"v","a","l","u","e","O","f">>,
    <<"h","a","s","O","w","n","P","r","o","p","e","r","t","y">> }

\* (key in obj) for an object literal with the given own keys
In(key, ownKeys) == key \in ownKeys \/ key \in ObjectPrototypeKeys

\* the keys of { ...pkgMeta.dependencies, ...pkgMeta.peerDependencies }
externalizeDepsKeys(pkgMeta) == pkgMeta.dependencies \cup pkgMeta.peerDependencies

\* externalizeDepsPlugin(pkgAnalysis).resolveId(id)
externalizeDepsResolveId(pkgMeta, id) ==
  LET pkgName == extractPkgName(id)
  IN IF pkgName.matched /\ pkgName.str # <<>> /\ In(pkgName.str, externalizeDepsKeys(pkgMeta))
     THEN External(id)
     ELSE Deferred

\* ---- the calls enumerated for externalize-deps ----

IdAlphabet == {"a", "1", "/", "@", "."}

lodash == <<"l","o","d","a","s","h">>

\* package names a manifest may list
DepNames == { <<"a">>, <<"a","1">>, <<"@","a","/","b">>, lodash }

LongIds ==
  { <<"l","o","d","a","s","h","/","d","e","b","o","u","n","c","e">>,
    lodash,
    <<"@","a","/","b">>, <<"@","a","/","b","/","a">>, <<"@","a","/","b","1">>,
    <<"a","1","/","a">>,
    <<"c","o","n","s","t","r","u","c","t","o","r">> }

ImportIds == StrsOver(IdAlphabet, 1, MaxIdLen) \cup LongIds

\* where a manifest lists a package
DepRoles == {"none", "dep", "peer", "dev", "depdev"}

PkgMetaOf(role) ==
  [ dependencies     |-> {n \in DepNames : role[n] \in {"dep", "depdev"}},
    peerDependencies |-> {n \in DepNames : role[n] = "peer"},
    devDependencies  |-> {n \in DepNames : role[n] \in {"dev", "depdev"}} ]

PkgMetas == {PkgMetaOf(role) : role \in [DepNames -> DepRoles]}

InitDeps ==
  /\ input \in [id : ImportIds, pkgMeta : PkgMetas]
  /\ output = NotCalled
  /\ BuildIdle /\ WatchIdle

ResolveIdDeps ==
  /\ output = NotCalled
  /\ output' = [called |-> TRUE, res |-> externalizeDepsResolveId(input.pkgMeta, input.id)]
  /\ UNCHANGED <<input, buildVars, watchVars>>

NextDeps == ResolveIdDeps

SpecDeps == InitDeps /\ [][NextDeps]_vars

\* ---- C4 ----

\* what the specifier names: "@scope/name" or "name", before any subpath
LeadingPkgSegment(id) ==
  LET slashes == {i \in 1..Len(id) : id[i] = "/"}
      First(S) == CHOOSE i \in S : \A j \in S : i <= j
      cut == IF id # <<>> /\ id[1] = "@"
             THEN (IF Cardinality(slashes) >= 2
                   THEN First(slashes \ {First(slashes)}) ELSE Len(id) + 1)
             ELSE (IF slashes # {} THEN First(slashes) ELSE Len(id) + 1)
  IN Take(id, cut - 1)

\* C4: the externalize-deps resolver marks a specifier external if and only if
\* its leading package-name segment is a key of dependencies or peerDependencies,
\* and defers every other specifier.
C4_ExternalIffLeadingSegmentIsDep ==
  output.called =>
    /\ output.res \in {Deferred, External(input.id)}
    /\ (output.res = External(input.id)) <=>
         (LeadingPkgSegment(input.id) \in
            input.pkgMeta.dependencies \cup input.pkgMeta.peerDependencies)


\* ------------------------------------------------------------------------
\* Generated content
\* ------------------------------------------------------------------------

\* s.replace(p, r) for a string pattern p: the first occurrence only
ReplaceFirst(s, p, r) ==
  LET i == IndexOf(s, p)
  IN IF i = 0 THEN s ELSE Take(s, i - 1) \o r \o Drop(s, i + Len(p) - 1)

\* JavaScript values a generator may return. An object is a function from its
\* keys to its values; an array is a sequence.
JsString(text) == [t |-> "string", text |-> text]
JsObject(m) == [t |-> "object", m |-> m]
JsArray(elems) == [t |-> "array", elems |-> elems]
\* null, undefined, a number, a boolean
JsOther(kind) == [t |-> kind]
JsUndefined == JsOther("undefined")

\* typeof v
TypeOf(v) == IF v.t \in {"object", "array", "null"} THEN "object" ELSE v.t

\* decimal digits of an array index, as a string
IndexKey(i) == << <<"0","1","2","3","4","5","6","7","8","9">>[i + 1] >>

\* the keys (for key in v) enumerates, v of type object
ForInKeys(v) ==
  CASE v.t = "object" -> DOMAIN v.m
    [] v.t = "array"  -> {IndexKey(i - 1) : i \in 1..Len(v.elems)}
    [] OTHER          -> {}

\* v[key], key among ForInKeys(v)
GetProp(v, key) ==
  IF v.t = "object" THEN v.m[key]
  ELSE v.elems[(CHOOSE i \in 1..Len(v.elems) : IndexKey(i - 1) = key)]

Thrown(message) == [status |-> "error", message |-> message]
Returned(value) == [status |-> "ok", value |-> value]

\* the branch of generateEntryContent taken for a string result
generateFromStringNoCheck(entryId, generatorRes) ==
  Returned([k \in {entryId} |-> generatorRes.text])

generateFromString(entryId, generatorRes) ==
  IF IndexOf(entryId, <<"*">>) # 0
  THEN Thrown("Generator string output can't have blob entrypoint name")
  ELSE Returned([k \in {entryId} |-> generatorRes.text])

\* the branch taken for a result of type object
generateFromObject(entryId, generatorRes) ==
  IF IndexOf(entryId, <<"*">>) = 0
  THEN Thrown("Generator object output must have blob entrypoint name")
  ELSE LET keys == ForInKeys(generatorRes)
           expanded == {ReplaceFirst(entryId, <<"*">>, key) : key \in keys}
       IN Returned([e \in expanded |->
            GetProp(generatorRes, CHOOSE key \in keys : ReplaceFirst(entryId, <<"*">>, key) = e)])

\* A generator module: whether import() of it succeeds, what its default export
\* is, and what calling it does (the same for every entry identifier).
\*   [imports : BOOLEAN, default : "function" | "other", throws : BOOLEAN, returns : value]
generateEntryContent(entryId, generator) ==
  IF ~generator.imports THEN Thrown("import failed")
  ELSE IF generator.default # "function"
  THEN Thrown("Generator must have a default function export")
  ELSE IF generator.throws THEN Thrown("generator threw")
  ELSE LET generatorRes == generator.returns
       IN IF TypeOf(generatorRes) = "string"
          THEN generateFromString(entryId, generatorRes)
          ELSE IF TypeOf(generatorRes) = "object"
          THEN generateFromObject(entryId, generatorRes)
          ELSE Thrown("Invalid type of generator output")

\* ---- the calls enumerated for generateEntryContent ----

\* source texts; the empty text is one of them
Texts == {"", "x"}

WildcardKeys == { <<"a">>, <<"b">> }

GenEntryIds ==
  { <<".">>, <<".","/","a">>, <<".","/","p","/","*">>, <<".","/","*">> }

JsObjects == {JsObject(m) : m \in UNION {[K -> Texts] : K \in SUBSET WildcardKeys}}

JsValues ==
  {JsString(x) : x \in Texts} \cup JsObjects
    \cup {JsArray(<<>>), JsArray(<<"x">>)}
    \cup {JsOther(k) : k \in {"null", "undefined", "number", "boolean"}}

Generators ==
  {[imports |-> FALSE, default |-> "other", throws |-> FALSE, returns |-> JsUndefined]}
    \cup {[imports |-> TRUE, default |-> "other", throws |-> FALSE, returns |-> JsUndefined]}
    \cup {[imports |-> TRUE, default |-> "function", throws |-> TRUE, returns |-> JsUndefined]}
    \cup {[imports |-> TRUE, default |-> "function", throws |-> FALSE, returns |-> v] :
            v \in JsValues}

InitGen ==
  /\ input \in [entryId : GenEntryIds, generator : Generators]
  /\ output = NotCalled
  /\ BuildIdle /\ WatchIdle

GenerateEntryContent ==
  /\ output = NotCalled
  /\ output' = [called |-> TRUE, res |-> generateEntryContent(input.entryId, input.generator)]
  /\ UNCHANGED <<input, buildVars, watchVars>>

NextGen == GenerateEntryContent

SpecGen == InitGen /\ [][NextGen]_vars

HasWildcard(entryId) == \E i \in 1..Len(entryId) : entryId[i] = "*"

\* the generator was called and returned (a value, not an exception)
GeneratorReturned == input.generator.imports /\ input.generator.default = "function"
                       /\ ~input.generator.throws

\* C5: a string for a wildcard identifier and a mapping for a non-wildcard
\* identifier raise an error and return no content mapping; a string for a
\* non-wildcard identifier yields exactly one entry, keyed by that identifier.
C5_StringWildcardPairing ==
  (output.called /\ GeneratorReturned) =>
    LET v == input.generator.returns
        id == input.entryId
    IN /\ (v.t = "string" /\ HasWildcard(id)) => output.res.status = "error"
       /\ (v.t = "object" /\ ~HasWildcard(id)) => output.res.status = "error"
       /\ (v.t = "string" /\ ~HasWildcard(id)) =>
            /\ output.res.status = "ok"
            /\ DOMAIN output.res.value = {id}
            /\ output.res.value[id] = v.text

C5_Witness ==
  /\ output.called /\ GeneratorReturned
  /\ input.generator.returns.t = "string" /\ HasWildcard(input.entryId)
  /\ output.res.status = "error"

\* C6: a generator result that is neither a string nor a key-value mapping, for
\* an identifier with or without a wildcard, raises an error and returns no
\* content mapping; a default export that is not callable is an error.
C6_OtherResultIsError ==
  output.called =>
    /\ (GeneratorReturned /\ input.generator.returns.t \notin {"string", "object"})
         => output.res.status = "error"
    /\ (input.generator.imports /\ input.generator.default # "function")
         => output.res.status = "error"


\* ------------------------------------------------------------------------
\* Path utilities
\* ------------------------------------------------------------------------

\* the string literals of the source
Lit ==
  [ dotSlash |-> <<".","/">>,
    ts       |-> <<".","t","s">>,
    tsx      |-> <<".","t","s","x">>,
    js       |-> <<".","j","s">>,
    jsx      |-> <<".","j","s","x">>,
    mjs      |-> <<".","m","j","s">>,
    cjs      |-> <<".","c","j","s">>,
    dts      |-> <<".","d",".","t","s">>,
    minJs    |-> <<".","m","i","n",".","j","s">>,
    iifeJs   |-> <<".","i","i","f","e",".","j","s">>,
    map      |-> <<".","m","a","p">>,
    css      |-> <<".","c","s","s">>,
    index    |-> <<"i","n","d","e","x">>,
    dist     |-> <<"d","i","s","t">>,
    tsc      |-> <<".","t","s","c">>,
    src      |-> <<"s","r","c">>,
    star     |-> <<"*">> ]

\* process.cwd() of the script: the package directory
pkgDir == <<"/","w">>

\* the segments of a path between "/" characters
RECURSIVE Split(_)
Split(s) ==
  LET i == IndexOf(s, <<"/">>)
  IN IF i = 0 THEN <<s>> ELSE <<Take(s, i - 1)>> \o Split(Drop(s, i))

\* path.normalize of an absolute path, as a sequence of segments
RECURSIVE NormalizeSegs(_, _)
NormalizeSegs(segs, acc) ==
  IF segs = <<>> THEN acc
  ELSE LET h == Head(segs)
       IN IF h = <<>> \/ h = <<".">> THEN NormalizeSegs(Tail(segs), acc)
          ELSE IF h = <<".",".">>
          THEN NormalizeSegs(Tail(segs), IF acc = <<>> THEN acc ELSE Take(acc, Len(acc) - 1))
          ELSE NormalizeSegs(Tail(segs), Append(acc, h))

RECURSIVE JoinSegs(_)
JoinSegs(segs) ==
  IF segs = <<>> THEN <<>> ELSE <<"/">> \o Head(segs) \o JoinSegs(Tail(segs))

\* path.join(...parts) where the first part is absolute
joinPaths(parts) ==
  LET RECURSIVE Glue(_)
      Glue(ps) == IF ps = <<>> THEN <<>> ELSE Head(ps) \o <<"/">> \o Glue(Tail(ps))
      segs == NormalizeSegs(Split(Glue(parts)), <<>>)
  IN IF segs = <<>> THEN <<"/">> ELSE JoinSegs(segs)

\* s.replace(/\.tsx?$/, '')
StripTsExt(s) ==
  IF EndsWith(s, Lit.tsx) THEN Take(s, Len(s) - 4)
  ELSE IF EndsWith(s, Lit.ts) THEN Take(s, Len(s) - 3)
  ELSE s

\* s.replace(/\.tsx?/, ''): the first ".ts" anywhere, and an "x" after it
StripFirstTs(s) ==
  LET i == IndexOf(s, Lit.ts)
  IN IF i = 0 THEN s
     ELSE IF i + 3 <= Len(s) /\ s[i + 3] = "x"
     THEN Take(s, i - 1) \o Drop(s, i + 3)
     ELSE Take(s, i - 1) \o Drop(s, i + 2)

\* a path kept with its leading "./"
KeepDotSlash(s) == s

\* s.replace(/^\.\//, '')
StripDotSlash(s) == IF StartsWith(s, Lit.dotSlash) THEN Drop(s, 2) ELSE s

\* s.replace(/\.[jt]sx?$/, '')
StripScriptExt(s) ==
  IF EndsWith(s, Lit.tsx) \/ EndsWith(s, Lit.jsx) THEN Take(s, Len(s) - 4)
  ELSE IF EndsWith(s, Lit.ts) \/ EndsWith(s, Lit.js) THEN Take(s, Len(s) - 3)
  ELSE s

buildOutputId(relSrcPath) == StripScriptExt(StripDotSlash(relSrcPath))

buildTscPath(dir, relSrcPath, ext) ==
  StripTsExt(joinPaths(<<dir, Lit.dist, Lit.tsc, relSrcPath>>)) \o ext

\* a minifier writing over its input
UnminifiedPath(unminifiedIifePath) == unminifiedIifePath

\* s.replace(/\.js$/, '.min.js')
MinifiedPath(unminifiedIifePath) ==
  IF EndsWith(unminifiedIifePath, Lit.js)
  THEN Take(unminifiedIifePath, Len(unminifiedIifePath) - 3) \o Lit.minJs
  ELSE unminifiedIifePath


\* ------------------------------------------------------------------------
\* Packages and their analysis
\* ------------------------------------------------------------------------

\* A package on disk:
\*   exports : buildConfig.exports, entry identifier -> entry configuration
\*   esm, cjs, types : buildConfig flags, "unset" | "true" | "false"
\*   files : the files under <pkgDir>/src, relative to it
\* An entry configuration:
\*   generator : a generator module, or NoGenerator
\*   iife : NoIife, or [globals : set of specifiers, generator : ...]

NoGenerator == [absent |-> TRUE]
NoIife == [absent |-> TRUE]

\* flag ?? true
FlagEnabled(flag) == flag # "false"

EmptyMap == [k \in {} |-> ""]

\* an assignment that drops what the target held
ObjectAssignReplacing(target, source) == source

\* Object.assign(target, source)
ObjectAssign(target, source) ==
  [k \in DOMAIN target \cup DOMAIN source |->
     IF k \in DOMAIN source THEN source[k] ELSE target[k]]

\* the order in which the keys of an object are enumerated: the generators and
\* the file system of the model list names in this order
CharOrder ==
  <<"*","-",".","/","0","1","2","3","4","5","6","7","8","9","@",
    "a","b","c","d","e","f","g","h","i","j","k","l","m",
    "n","o","p","q","r","s","t","u","v","w","x","y","z">>

CharRank(c) == CHOOSE i \in 1..Len(CharOrder) : CharOrder[i] = c

RECURSIVE StrLeq(_, _)
StrLeq(a, b) ==
  IF a = <<>> THEN TRUE
  ELSE IF b = <<>> THEN FALSE
  ELSE IF Head(a) = Head(b) THEN StrLeq(Tail(a), Tail(b))
  ELSE CharRank(Head(a)) < CharRank(Head(b))

RECURSIVE KeysInOrder(_)
KeysInOrder(S) ==
  IF S = {} THEN <<>>
  ELSE LET m == CHOOSE x \in S : \A y \in S : StrLeq(x, y)
       IN <<m>> \o KeysInOrder(S \ {m})

\* whether a glob pattern matches a path; "*" matches within one segment
RECURSIVE GlobMatch(_, _)
GlobMatch(pat, path) ==
  IF pat = <<>> THEN path = <<>>
  ELSE IF Head(pat) = "*"
  THEN \/ GlobMatch(Tail(pat), path)
       \/ path # <<>> /\ Head(path) # "/" /\ GlobMatch(pat, Tail(path))
  ELSE path # <<>> /\ Head(path) = Head(pat) /\ GlobMatch(Tail(pat), Tail(path))

\* globby(<entry>.{ts,tsx}, { cwd: srcDir })
queryRelSrcPaths(files, entryId) ==
  LET base == IF entryId = <<".">> THEN Lit.index ELSE StripDotSlash(entryId)
  IN KeysInOrder({f \in files : GlobMatch(base \o Lit.ts, f) \/ GlobMatch(base \o Lit.tsx, f)})

\* the first await of an entry's resolution and what it yields:
\* [relSrcPaths, contentMap], or an exception
resolveEntry(package, entryId) ==
  LET entryConfig == package.exports[entryId]
  IN IF entryConfig.generator # NoGenerator
     THEN LET r == generateEntryContent(entryId, entryConfig.generator)
          IN IF r.status = "error" THEN r
             ELSE Returned([ contentMap |-> r.value,
                             relSrcPaths |->
                               LET ks == KeysInOrder(DOMAIN r.value)
                               IN [i \in 1..Len(ks) |-> ks[i] \o Lit.ts] ])
     ELSE Returned([ contentMap |-> EmptyMap,
                     relSrcPaths |-> queryRelSrcPaths(package.files, entryId) ])

\* one iteration of the IIFE generator loop of an entry, for relSrcPath
generateIifeEntry(package, entryId, relSrcPath) ==
  generateEntryContent(StripFirstTs(relSrcPath), package.exports[entryId].iife.generator)

HasIifeGenerator(entryConfig) ==
  entryConfig.iife # NoIife /\ entryConfig.iife.generator # NoGenerator


\* ------------------------------------------------------------------------
\* Rollup input and output
\* ------------------------------------------------------------------------

EsmEnabled(package) == FlagEnabled(package.esm)
CjsEnabled(package) == FlagEnabled(package.cjs)
TypesAlwaysEnabled(package) == TRUE
TypesEnabled(package) == FlagEnabled(package.types)

\* the source paths of a relSrcPathMap, in iteration order
RECURSIVE FlattenPaths(_)
FlattenPaths(m) ==
  IF m = <<>> THEN <<>> ELSE Head(m).relSrcPaths \o FlattenPaths(Tail(m))

buildInputMap(dir, m, ext) ==
  LET ps == FlattenPaths(m)
      RECURSIVE Fold(_, _)
      Fold(i, inputs) ==
        IF i > Len(ps) THEN inputs
        ELSE Fold(i + 1, ObjectAssign(inputs,
               [k \in {buildOutputId(ps[i])} |-> buildTscPath(dir, ps[i], ext)]))
  IN Fold(1, EmptyMap)

\* the files a write with { dir, entryFileNames: '[name]<ext>' } produces for the
\* entry points of an input map
EntryFiles(dir, inputMap, ext) ==
  {joinPaths(<<dir, Lit.dist, name \o ext>>) : name \in DOMAIN inputMap}

\* buildEsmOutputOptions: [name].mjs, and its sourcemap when isDev
buildEsmOutputFiles(dir, inputMap, dev) ==
  EntryFiles(dir, inputMap, Lit.mjs)
    \cup (IF dev THEN EntryFiles(dir, inputMap, Lit.mjs \o Lit.map) ELSE {})

\* buildCjsOutputOptions: [name].cjs
buildCjsOutputFiles(dir, inputMap) == EntryFiles(dir, inputMap, Lit.cjs)

\* buildTypesOutputOptions: [name].d.ts
buildTypesOutputFiles(dir, inputMap) == EntryFiles(dir, inputMap, Lit.dts)

\* buildIifeOutputOptions(...).file
buildIifeOutputFileMjs(dir, relSrcPath) ==
  joinPaths(<<dir, Lit.dist, buildOutputId(relSrcPath)>>) \o Lit.mjs

buildIifeOutputFile(dir, relSrcPath) ==
  joinPaths(<<dir, Lit.dist, buildOutputId(relSrcPath)>>) \o Lit.js

\* the bundler invocations of one build
ModulePass == [kind |-> "module", entryId |-> <<>>, relSrcPath |-> <<>>]
TypesPass == [kind |-> "types", entryId |-> <<>>, relSrcPath |-> <<>>]
IifePass(entryId, relSrcPath) ==
  [kind |-> "iife", entryId |-> entryId, relSrcPath |-> relSrcPath]

\* the (entry, source path) pairs bundleIifes and continuouslyBundleIifes visit
IifePasses(entryConfigMap, m) ==
  UNION { {IifePass(m[i].entryId, m[i].relSrcPaths[j]) : j \in 1..Len(m[i].relSrcPaths)} :
          i \in {k \in 1..Len(m) : entryConfigMap[m[k].entryId].iife # NoIife} }

\* the writes bundleModules issues once rollup() has produced the bundle
esmWriteIssued(package, dev) == EsmEnabled(package)
cjsWriteIssuedInDev(package, dev) == CjsEnabled(package)
cjsWriteIssued(package, dev) == ~dev /\ CjsEnabled(package)


\* ------------------------------------------------------------------------
\* The one-shot build: analyzePkg, then the three pipelines, under runMain
\* ------------------------------------------------------------------------

Running == proc = "running"

\* Promise.all over the entry resolutions: rejected by the first failure,
\* fulfilled when every resolution is done
AnalyzeSettledAll(pc, tasks) ==
  IF pc # "resolving" THEN pc
  ELSE IF \A e \in DOMAIN tasks : tasks[e].pc \in {"done", "failed"} THEN "returned"
  ELSE pc

AnalyzeSettled(pc, tasks) ==
  IF pc # "resolving" THEN pc
  ELSE IF \E e \in DOMAIN tasks : tasks[e].pc = "failed" THEN "thrown"
  ELSE IF \A e \in DOMAIN tasks : tasks[e].pc = "done" THEN "returned"
  ELSE pc

PipelinesDone(mo, ii, ty) ==
  /\ mo.pc \in {"skipped", "closed"}
  /\ ty.pc \in {"skipped", "closed"}
  /\ \A p \in DOMAIN ii : ii[p].pc = "done"

PipelineFailed(mo, ii, ty) ==
  mo.pc = "failed" \/ ty.pc = "failed" \/ \E p \in DOMAIN ii : ii[p].pc = "failed"

\* Promise.all([bundleModules, bundleIifes, bundleTypes]), bundleIifes being
\* Promise.all over its passes
Settled(res, mo, ii, ty) ==
  IF res # "pending" THEN res
  ELSE IF PipelineFailed(mo, ii, ty) THEN "rejected"
  ELSE IF PipelinesDone(mo, ii, ty) THEN "fulfilled"
  ELSE res

\* ---- the packages built ----

\* source files and entry identifiers of the packages built
File ==
  [ indexTs |-> <<"i","n","d","e","x",".","t","s">>,
    aTs     |-> <<"a",".","t","s">>,
    aTsx    |-> <<"a",".","t","s","x">>,
    aMinTs  |-> <<"a",".","m","i","n",".","t","s">> ]

Id == [ root |-> <<".">>, a |-> <<".","/","a">>, all |-> <<".","/","*">> ]

gString == [imports |-> TRUE, default |-> "function", throws |-> FALSE, returns |-> JsString("x")]
gObject == [imports |-> TRUE, default |-> "function", throws |-> FALSE,
            returns |-> JsObject([k \in {<<"a">>} |-> "x"])]

PlainEntry == [generator |-> NoGenerator, iife |-> NoIife]
IifeEntry == [generator |-> NoGenerator, iife |-> [globals |-> {}, generator |-> NoGenerator]]
GeneratedIifeEntry == [generator |-> gString, iife |-> [globals |-> {}, generator |-> gString]]
MisgeneratedEntry == [generator |-> gObject, iife |-> NoIife]

BuildExports ==
  { [e \in {Id.root} |-> PlainEntry],
    [e \in {Id.root, Id.a} |-> IF e = Id.root THEN PlainEntry ELSE IifeEntry],
    [e \in {Id.all} |-> IifeEntry],
    [e \in {Id.root, Id.a} |-> IF e = Id.root THEN PlainEntry ELSE GeneratedIifeEntry],
    [e \in {Id.root, Id.a} |-> IF e = Id.root THEN PlainEntry ELSE MisgeneratedEntry] }

BuildFileSets ==
  { {File.indexTs, File.aTs}, {File.aTs, File.aTsx}, {File.aTs, File.aMinTs} }

\* a buildConfig flag: absent, true or false
Flags == {"unset", "true", "false"}

BuildPkgs ==
  [exports : BuildExports, files : BuildFileSets,
   esm : Flags, cjs : Flags \ {"true"}, types : Flags \ {"true"}]

BuildInit ==
  /\ PureIdle
  /\ isDev \in BOOLEAN /\ isWatch = FALSE
  /\ pkg \in BuildPkgs
  /\ proc = "running" /\ result = "pending"
  /\ analyzePc = "reading" /\ task = <<>>
  /\ relSrcPathMap = <<>> /\ entryContentMap = EmptyMap /\ iifeEntryContentMap = EmptyMap
  /\ modules = ModulesIdle /\ iifes = <<>> /\ types = TypesIdle
  /\ writes = {}
  /\ WatchIdle

pipelineVars == <<modules, iifes, types, writes>>
analysisVars == <<analyzePc, task, relSrcPathMap, entryContentMap, iifeEntryContentMap>>

\* ---- analyzePkg ----

\* readSrcPkgMeta resolved: every entry resolution is started
ReadMetaOk ==
  /\ Running /\ analyzePc = "reading"
  /\ task' = [e \in DOMAIN pkg.exports |-> [pc |-> "resolve", i |-> 0]]
  /\ analyzePc' = AnalyzeSettled("resolving", task')
  /\ UNCHANGED <<pureVars, watchVars, isDev, isWatch, pkg, proc, result, relSrcPathMap, entryContentMap,
                 iifeEntryContentMap, pipelineVars>>

\* readSrcPkgMeta rejected (unreadable manifest)
ReadMetaFails ==
  /\ Running /\ analyzePc = "reading"
  /\ analyzePc' = "thrown"
  /\ result' = "rejected"
  /\ UNCHANGED <<pureVars, watchVars, isDev, isWatch, pkg, proc, task, relSrcPathMap, entryContentMap,
                 iifeEntryContentMap, pipelineVars>>

\* what the resolution of an entry does to the analysis and to the script's promise
TaskStep(e, t) ==
  /\ task' = [task EXCEPT ![e] = t]
  /\ analyzePc' = AnalyzeSettled(analyzePc, task')
  /\ result' = IF analyzePc' = "thrown" THEN "rejected" ELSE result

\* generateEntryContent or queryRelSrcPaths resolved for entry e
EntryResolved(e) ==
  /\ Running /\ e \in DOMAIN task /\ task[e].pc = "resolve"
  /\ LET r == resolveEntry(pkg, e)
     IN /\ r.status = "ok"
        /\ entryContentMap' = ObjectAssign(entryContentMap, r.value.contentMap)
        /\ relSrcPathMap' =
             Append(relSrcPathMap, [entryId |-> e, relSrcPaths |-> r.value.relSrcPaths])
        /\ TaskStep(e, IF HasIifeGenerator(pkg.exports[e]) /\ r.value.relSrcPaths # <<>>
                       THEN [pc |-> "iife", i |-> 1]
                       ELSE [pc |-> "done", i |-> 0])
  /\ UNCHANGED <<pureVars, watchVars, isDev, isWatch, pkg, proc, iifeEntryContentMap, pipelineVars>>

\* it rejected: a generator or configuration error, or an I/O error
EntryFails(e) ==
  /\ Running /\ e \in DOMAIN task /\ task[e].pc = "resolve"
  /\ TaskStep(e, [pc |-> "failed", i |-> 0])
  /\ UNCHANGED <<pureVars, watchVars, isDev, isWatch, pkg, proc, relSrcPathMap, entryContentMap,
                 iifeEntryContentMap, pipelineVars>>

RelSrcPathsOf(m, e) == (CHOOSE x \in {m[k] : k \in 1..Len(m)} : x.entryId = e).relSrcPaths

\* one iteration of the IIFE generator loop of entry e resolved
IifeGenerated(e) ==
  /\ Running /\ e \in DOMAIN task /\ task[e].pc = "iife"
  /\ LET paths == RelSrcPathsOf(relSrcPathMap, e)
         r == generateIifeEntry(pkg, e, paths[task[e].i])
     IN /\ r.status = "ok"
        /\ iifeEntryContentMap' = ObjectAssign(iifeEntryContentMap, r.value)
        /\ TaskStep(e, IF task[e].i < Len(paths)
                       THEN [pc |-> "iife", i |-> task[e].i + 1]
                       ELSE [pc |-> "done", i |-> 0])
  /\ UNCHANGED <<pureVars, watchVars, isDev, isWatch, pkg, proc, relSrcPathMap, entryContentMap, pipelineVars>>

IifeGenerateFails(e) ==
  /\ Running /\ e \in DOMAIN task /\ task[e].pc = "iife"
  /\ TaskStep(e, [pc |-> "failed", i |-> 0])
  /\ UNCHANGED <<pureVars, watchVars, isDev, isWatch, pkg, proc, relSrcPathMap, entryContentMap,
                 iifeEntryContentMap, pipelineVars>>


\* ---- the three pipelines ----

\* a build in which the first failure stops the other pipelines
BuildStepCancelling(mo, ii, ty) ==
  LET anyFailed == PipelineFailed(mo, ii, ty)
      Stop(pc) == IF anyFailed /\ pc \in {"rollup", "writing", "minifying"} THEN "failed" ELSE pc
  IN /\ modules' = [mo EXCEPT !.pc = Stop(@)]
     /\ iifes' = [p \in DOMAIN ii |-> [ii[p] EXCEPT !.pc = Stop(@)]]
     /\ types' = [ty EXCEPT !.pc = Stop(@)]
     /\ result' = Settled(result, mo, ii, ty)
     /\ UNCHANGED <<pureVars, watchVars, isDev, isWatch, pkg, proc, analysisVars>>

BuildStep(mo, ii, ty) ==
  /\ modules' = mo /\ iifes' = ii /\ types' = ty
  /\ result' = Settled(result, mo, ii, ty)
  /\ UNCHANGED <<pureVars, watchVars, isDev, isWatch, pkg, proc, analysisVars>>

Writes(by, paths) == {[by |-> by, path |-> f] : f \in paths}

\* the continuation of `await analyzePkg(pkgDir)`: the three calls inside
\* Promise.all([...]), each running up to its first await
StartBuild ==
  /\ Running /\ analyzePc = "returned" /\ modules.pc = "idle"
  /\ BuildStep(
       [ModulesIdle EXCEPT !.pc = IF ~EsmEnabled(pkg) /\ ~CjsEnabled(pkg)
                                  THEN "skipped" ELSE "rollup"],
       [p \in IifePasses(pkg.exports, relSrcPathMap) |-> [pc |-> "rollup"]],
       [pc |-> IF ~TypesEnabled(pkg) THEN "skipped" ELSE "rollup"])
  /\ UNCHANGED writes

\* Promise.all over the issued writes resolved: then bundle.close()
moduleCloses(mo) == mo.esm \in {"none", "written"} /\ mo.cjs \in {"none", "written"}

\* bundleModules: rollup() resolved, the writes are issued
ModuleRollupOk ==
  /\ Running /\ modules.pc = "rollup"
  /\ LET inputMap == buildInputMap(pkgDir, relSrcPathMap, Lit.js)
         e == esmWriteIssued(pkg, isDev)
         c == cjsWriteIssued(pkg, isDev)
         mo == [pc |-> "writing",
                esm |-> IF e THEN "writing" ELSE "none",
                cjs |-> IF c THEN "writing" ELSE "none"]
     IN /\ BuildStep([mo EXCEPT !.pc = IF moduleCloses(mo) THEN "closed" ELSE "writing"],
                     iifes, types)
        /\ writes' = writes
             \cup Writes(ModulePass, IF e THEN buildEsmOutputFiles(pkgDir, inputMap, isDev) ELSE {})
             \cup Writes(ModulePass, IF c THEN buildCjsOutputFiles(pkgDir, inputMap) ELSE {})

ModuleRollupFails ==
  /\ Running /\ modules.pc = "rollup"
  /\ BuildStep([modules EXCEPT !.pc = "failed"], iifes, types)
  /\ UNCHANGED writes

\* bundle.write of one format resolved
ModuleWriteOk(fmt) ==
  /\ Running /\ modules[fmt] = "writing"
  /\ LET mo == [modules EXCEPT ![fmt] = "written"]
     IN BuildStep([mo EXCEPT !.pc = IF @ = "writing" /\ moduleCloses(mo) THEN "closed" ELSE @],
                  iifes, types)
  /\ UNCHANGED writes

\* bundle.write of one format rejected: the other write goes on, close() is skipped
ModuleWriteFails(fmt) ==
  /\ Running /\ modules[fmt] = "writing"
  /\ BuildStep([modules EXCEPT ![fmt] = "failed", !.pc = "failed"], iifes, types)
  /\ UNCHANGED writes

\* bundleIifes, pass p: rollup() resolved, bundle.write(outputOptions) is issued
IifeRollupOk(p) ==
  /\ Running /\ p \in DOMAIN iifes /\ iifes[p].pc = "rollup"
  /\ BuildStep(modules, [iifes EXCEPT ![p].pc = "writing"], types)
  /\ writes' = writes \cup Writes(p, {buildIifeOutputFile(pkgDir, p.relSrcPath)})

IifeRollupFails(p) ==
  /\ Running /\ p \in DOMAIN iifes /\ iifes[p].pc = "rollup"
  /\ BuildStep(modules, [iifes EXCEPT ![p].pc = "failed"], types)
  /\ UNCHANGED writes

\* the write resolved: bundle.close() and minifyFile(outputOptions.file) are started
IifeWriteOk(p) ==
  /\ Running /\ p \in DOMAIN iifes /\ iifes[p].pc = "writing"
  /\ BuildStep(modules, [iifes EXCEPT ![p].pc = "minifying"], types)
  /\ writes' = writes
       \cup Writes(p, {MinifiedPath(buildIifeOutputFile(pkgDir, p.relSrcPath))})

IifeWriteFails(p) ==
  /\ Running /\ p \in DOMAIN iifes /\ iifes[p].pc = "writing"
  /\ BuildStep(modules, [iifes EXCEPT ![p].pc = "failed"], types)
  /\ UNCHANGED writes

\* the minifier exited
MinifyOk(p) ==
  /\ Running /\ p \in DOMAIN iifes /\ iifes[p].pc = "minifying"
  /\ BuildStep(modules, [iifes EXCEPT ![p].pc = "done"], types)
  /\ UNCHANGED writes

MinifyFails(p) ==
  /\ Running /\ p \in DOMAIN iifes /\ iifes[p].pc = "minifying"
  /\ BuildStep(modules, [iifes EXCEPT ![p].pc = "failed"], types)
  /\ UNCHANGED writes

\* bundleTypes: rollup() resolved, the write is issued
TypesRollupOk ==
  /\ Running /\ types.pc = "rollup"
  /\ BuildStep(modules, iifes, [pc |-> "writing"])
  /\ writes' = writes
       \cup Writes(TypesPass,
              buildTypesOutputFiles(pkgDir, buildInputMap(pkgDir, relSrcPathMap, Lit.dts)))

TypesRollupFails ==
  /\ Running /\ types.pc = "rollup"
  /\ BuildStep(modules, iifes, [pc |-> "failed"])
  /\ UNCHANGED writes

TypesWriteOk ==
  /\ Running /\ types.pc = "writing"
  /\ BuildStep(modules, iifes, [pc |-> "closed"])
  /\ UNCHANGED writes

TypesWriteFails ==
  /\ Running /\ types.pc = "writing"
  /\ BuildStep(modules, iifes, [pc |-> "failed"])
  /\ UNCHANGED writes

\* runMain: the rejection reaches run(...).catch, which reports it and calls
\* process.exit(1); whatever is still running ends with the process
Exit ==
  /\ Running /\ result = "rejected"
  /\ proc' = "exited"
  /\ UNCHANGED <<pureVars, watchVars, isDev, isWatch, pkg, result, analysisVars, pipelineVars>>

NextBuild ==
  \/ ReadMetaOk
  \/ ReadMetaFails
  \/ \E e \in DOMAIN task : EntryResolved(e)
  \/ \E e \in DOMAIN task : EntryFails(e)
  \/ \E e \in DOMAIN task : IifeGenerated(e)
  \/ \E e \in DOMAIN task : IifeGenerateFails(e)
  \/ StartBuild
  \/ ModuleRollupOk
  \/ ModuleRollupFails
  \/ \E fmt \in {"esm", "cjs"} : ModuleWriteOk(fmt)
  \/ \E fmt \in {"esm", "cjs"} : ModuleWriteFails(fmt)
  \/ \E p \in DOMAIN iifes : IifeRollupOk(p)
  \/ \E p \in DOMAIN iifes : IifeRollupFails(p)
  \/ \E p \in DOMAIN iifes : IifeWriteOk(p)
  \/ \E p \in DOMAIN iifes : IifeWriteFails(p)
  \/ \E p \in DOMAIN iifes : MinifyOk(p)
  \/ \E p \in DOMAIN iifes : MinifyFails(p)
  \/ TypesRollupOk
  \/ TypesRollupFails
  \/ TypesWriteOk
  \/ TypesWriteFails
  \/ Exit

SpecBuild == BuildInit /\ [][NextBuild]_vars


\* ---- C7 ----

PipelinesIdle == modules = ModulesIdle /\ types = TypesIdle /\ iifes = <<>> /\ writes = {}

\* C7: the entry resolutions are all started together; when one of them fails,
\* analyzePkg yields no analysis and no module, IIFE or types pass is started.
C7_NoPartialAnalysis ==
  /\ analyzePc \in {"resolving", "returned", "thrown"} /\ task # <<>>
       => DOMAIN task = DOMAIN pkg.exports
  /\ (\E e \in DOMAIN task : task[e].pc = "failed") => analyzePc = "thrown"
  /\ analyzePc # "returned" => PipelinesIdle
  /\ analyzePc = "thrown" => result = "rejected"

C7_Witness ==
  /\ analyzePc = "thrown"
  /\ \E e \in DOMAIN task : task[e].pc = "failed"
  /\ \E e \in DOMAIN task : task[e].pc = "done"
  /\ proc = "exited"
  /\ PipelinesIdle

\* ---- C8 ----

ModuleMidRun == modules.pc \in {"rollup", "writing"} \/ modules.esm = "writing"
                  \/ modules.cjs = "writing"
TypesMidRun == types.pc \in {"rollup", "writing"}
IifeMidRun(p) == iifes[p].pc \in {"rollup", "writing", "minifying"}

Started == modules.pc # "idle"

\* the pipelines are started together, from the one analysis
StartedTogether ==
  /\ (modules.pc = "idle") <=> (types.pc = "idle")
  /\ IF Started THEN DOMAIN iifes = IifePasses(pkg.exports, relSrcPathMap)
     ELSE iifes = <<>>

\* C8 as stated: started together; a failure rejects the overall result; no
\* pipeline or IIFE pass is ever cut short.
C8_NeverCutShort ==
  /\ StartedTogether
  /\ PipelineFailed(modules, iifes, types) => result = "rejected"
  /\ proc = "exited" =>
       /\ ~ModuleMidRun /\ ~TypesMidRun
       /\ \A p \in DOMAIN iifes : ~IifeMidRun(p)

\* a step moves at most one of: the module pipeline, the types pipeline, one pass
OnePipelineMoves ==
  LET moved == {p \in DOMAIN iifes : iifes'[p] # iifes[p]}
      n == Cardinality(moved) + (IF modules' # modules THEN 1 ELSE 0)
             + (IF types' # types THEN 1 ELSE 0)
  IN Started => (DOMAIN iifes' = DOMAIN iifes /\ n <= 1)

\* C8 as amended: started together; a failure rejects the overall result; the
\* build itself never stops a pipeline: each step moves one pipeline only, and
\* the others stay where they are, able to go on while the process runs. Only
\* the exit of the process (runMain, on the rejection) ends them.
C8_NotCancelledByBuild ==
  /\ [](StartedTogether /\ (PipelineFailed(modules, iifes, types) => result = "rejected"))
  /\ [][OnePipelineMoves]_vars
  /\ [][proc' # proc => (result = "rejected" /\ UNCHANGED pipelineVars)]_vars

C8_Witness ==
  /\ Running /\ result = "rejected"
  /\ modules.pc = "failed"
  /\ types.pc = "writing"
  /\ \E p \in DOMAIN iifes : iifes[p].pc = "minifying"

\* ---- C9 ----

\* C9 as stated: no two bundler invocations of a build write the same path.
C9_DisjointOutputs ==
  \A w1, w2 \in writes : w1.path = w2.path => w1.by = w2.by

\* C9 as amended: invocations of different kinds never write the same path, and
\* two IIFE passes do only when their source paths have the same output
\* identifier, or one's output identifier is the other's followed by ".min".
C9_DisjointUnlessSameOutputId ==
  \A w1, w2 \in writes :
    (w1.path = w2.path /\ w1.by # w2.by) =>
      /\ w1.by.kind = "iife" /\ w2.by.kind = "iife"
      /\ LET o1 == buildOutputId(w1.by.relSrcPath)
             o2 == buildOutputId(w2.by.relSrcPath)
         IN o1 = o2 \/ o1 = o2 \o <<".","m","i","n">> \/ o2 = o1 \o <<".","m","i","n">>

C9_Witness ==
  /\ \E w \in writes : w.by.kind = "module"
  /\ \E w \in writes : w.by.kind = "types"
  /\ \E w1, w2 \in writes : w1.by.kind = "iife" /\ w2.by.kind = "iife" /\ w1.by # w2.by
  /\ C9_DisjointOutputs

\* ---- C10 ----

\* C10: the module pass runs iff esm or cjs is enabled (each enabled unless
\* false); ESM is written iff esm is enabled, CJS iff cjs is enabled outside
\* development mode; the bundle is closed only once no issued write is pending.
C10_ModuleOutputs ==
  LET esm == pkg.esm \in {"unset", "true"}
      cjs == pkg.cjs \in {"unset", "true"}
      wrote(ext) == \E w \in writes : w.by = ModulePass /\ EndsWith(w.path, ext)
  IN Started =>
       /\ (modules.pc = "skipped") <=> ~(esm \/ cjs)
       /\ modules.pc \in {"writing", "closed"} =>
            /\ (modules.esm # "none") <=> esm
            /\ (modules.cjs # "none") <=> (cjs /\ ~isDev)
       /\ wrote(Lit.mjs) <=> (modules.esm # "none" /\ FlattenPaths(relSrcPathMap) # <<>>)
       /\ wrote(Lit.cjs) <=> (modules.cjs # "none" /\ FlattenPaths(relSrcPathMap) # <<>>)
       /\ modules.pc = "closed" =>
            /\ modules.esm \in {"none", "written"}
            /\ modules.cjs \in {"none", "written"}
            /\ (modules.esm = "written") <=> esm
            /\ (modules.cjs = "written") <=> (cjs /\ ~isDev)

C10_Witness ==
  /\ modules.pc = "closed" /\ isDev /\ pkg.cjs = "unset" /\ pkg.esm = "unset"
  /\ modules.esm = "written" /\ modules.cjs = "none"


\* ------------------------------------------------------------------------
\* Watch mode: the manifest watcher, its 'all' handler and the SIGINT handler
\* ------------------------------------------------------------------------

MaxChangeEvents == 3

Range(s) == {s[i] : i \in 1..Len(s)}

\* analyzePkg as the handler awaits it: the relSrcPathMap, or the error thrown
RECURSIVE analyzeEntries(_, _, _)
analyzeEntries(package, entryIds, acc) ==
  IF entryIds = <<>> THEN Returned(acc)
  ELSE LET e == Head(entryIds)
           r == resolveEntry(package, e)
       IN IF r.status = "error" THEN r
          ELSE IF /\ HasIifeGenerator(package.exports[e])
                  /\ \E j \in 1..Len(r.value.relSrcPaths) :
                       generateIifeEntry(package, e, r.value.relSrcPaths[j]).status = "error"
          THEN Thrown("iife")
          ELSE analyzeEntries(package, Tail(entryIds),
                 Append(acc, [entryId |-> e, relSrcPaths |-> r.value.relSrcPaths]))

analyzePkg(package) == analyzeEntries(package, KeysInOrder(DOMAIN package.exports), <<>>)

\* continuouslyBundleIifes: one session per source path of every IIFE entry
RECURSIVE continuouslyBundleIifes(_, _)
continuouslyBundleIifes(entryConfigMap, m) ==
  IF m = <<>> THEN <<>>
  ELSE LET h == Head(m)
       IN (IF entryConfigMap[h.entryId].iife # NoIife
           THEN [j \in 1..Len(h.relSrcPaths) |-> IifePass(h.entryId, h.relSrcPaths[j])]
           ELSE <<>>)
          \o continuouslyBundleIifes(entryConfigMap, Tail(m))

\* the sessions one handler spawns, each tagged with the event that spawned it
SpawnedBy(ev, package, m) ==
  LET passes == <<ModulePass>> \o continuouslyBundleIifes(package.exports, m)
  IN [i \in 1..Len(passes) |-> [ev |-> ev, pass |-> passes[i]]]

\* a handler that leaves the sessions of the list open
closeNothing(open, watchers) == open

\* closeRollupWatchers: close() on every session of the list
closeRollupWatchers(open, watchers) == open \ Range(watchers)

\* the manifests the watched package.json goes through
WatchPkgs ==
  { p \in BuildPkgs :
      /\ p.files = {File.aTs, File.aTsx}
      /\ p.types = "unset" /\ p.cjs = p.esm /\ p.esm # "true"
      /\ \A e \in DOMAIN p.exports :
           p.exports[e] \in {PlainEntry, IifeEntry, MisgeneratedEntry} }

WatchInit ==
  /\ PureIdle
  /\ isDev \in BOOLEAN /\ isWatch = TRUE
  /\ pkg = [absent |-> TRUE]
  /\ proc = "running" /\ result = "pending"
  /\ analyzePc = "idle" /\ task = <<>>
  /\ relSrcPathMap = <<>> /\ entryContentMap = EmptyMap /\ iifeEntryContentMap = EmptyMap
  /\ modules = ModulesIdle /\ iifes = <<>> /\ types = TypesIdle
  /\ writes = {}
  /\ srcJsonWatcher = "open" /\ rollupWatchers = <<>> /\ openSessions = {}
  /\ handlers = {} /\ changes = 0 /\ failed = {}
  /\ unhandledRejections \in {"throw", "warn"}

\* the process ends: its watchers and pending continuations go with it
ProcessEnds ==
  /\ proc' = "exited"
  /\ srcJsonWatcher' = "closed" /\ openSessions' = {} /\ handlers' = {}

\* chokidar emits an event for package.json: the handler starts and awaits
\* analyzePkg, which reads the manifest as it then is
ManifestEvent ==
  /\ Running /\ srcJsonWatcher = "open" /\ changes < MaxChangeEvents
  /\ \E p \in WatchPkgs :
       handlers' = handlers \cup {[ev |-> changes + 1, package |-> p]}
  /\ changes' = changes + 1
  /\ UNCHANGED <<pureVars, buildVars, srcJsonWatcher, rollupWatchers, openSessions, failed,
                 unhandledRejections>>

\* analyzePkg resolved: the rest of the handler runs without interruption
AnalysisReturns(h) ==
  /\ Running /\ h \in handlers
  /\ LET r == analyzePkg(h.package)
     IN /\ r.status = "ok"
        /\ rollupWatchers' = SpawnedBy(h.ev, h.package, r.value)
        /\ openSessions' = closeRollupWatchers(openSessions, rollupWatchers)
                             \cup Range(rollupWatchers')
  /\ handlers' = handlers \ {h}
  /\ UNCHANGED <<pureVars, buildVars, srcJsonWatcher, changes, failed, unhandledRejections>>

\* analyzePkg rejected (a generator or configuration error, or an I/O error):
\* the handler's promise is rejected and nothing handles it
AnalysisThrows(h) ==
  /\ Running /\ h \in handlers
  /\ failed' = failed \cup {h.ev}
  /\ IF unhandledRejections = "throw"
     THEN ProcessEnds
     ELSE /\ handlers' = handlers \ {h}
          /\ UNCHANGED <<proc, srcJsonWatcher, openSessions>>
  /\ UNCHANGED <<pureVars, isDev, isWatch, pkg, result, analysisVars, pipelineVars, rollupWatchers,
                 changes, unhandledRejections>>

\* the process.once('SIGINT') listener
Sigint ==
  /\ Running /\ result = "pending"
  /\ srcJsonWatcher' = "closed"
  /\ openSessions' = closeRollupWatchers(openSessions, rollupWatchers)
  /\ result' = "fulfilled"
  /\ UNCHANGED <<pureVars, isDev, isWatch, pkg, proc, analysisVars, pipelineVars, rollupWatchers,
                 handlers, changes, failed, unhandledRejections>>

\* a further SIGINT: the listener was removed after its first call
SigintAgain ==
  /\ Running /\ result = "fulfilled"
  /\ ProcessEnds
  /\ UNCHANGED <<pureVars, isDev, isWatch, pkg, result, analysisVars, pipelineVars, rollupWatchers,
                 changes, failed, unhandledRejections>>

NextWatch ==
  \/ ManifestEvent
  \/ \E h \in handlers : AnalysisReturns(h)
  \/ \E h \in handlers : AnalysisThrows(h)
  \/ Sigint
  \/ SigintAgain

SpecWatch == WatchInit /\ [][NextWatch]_vars


\* ---- C1 ----

\* C1: once SIGINT has been handled and the returned promise has resolved, the
\* manifest watcher is closed and no bundler watch session is open.
C1_QuietAfterSigint ==
  result = "fulfilled" => srcJsonWatcher = "closed" /\ openSessions = {}

\* ---- C2 ----

\* C2: every open bundler watch session is one of the current list, and all of
\* them were spawned by one and the same manifest event.
C2_SessionsOfOneEvent ==
  /\ openSessions \subseteq Range(rollupWatchers)
  /\ \A s1, s2 \in openSessions : s1.ev = s2.ev

\* the handler of the second event finished first; the handler of the first
\* event then replaced its sessions
C2_Witness ==
  /\ Running /\ changes = 2 /\ handlers = {} /\ failed = {}
  /\ Cardinality(openSessions) >= 2
  /\ \A s \in openSessions : s.ev = 1

\* ---- C3 ----

\* C3: a failed analysis is reported and leaves the manifest watcher open, so
\* that the next manifest event is still handled.
C3_WatcherSurvivesFailure ==
  (failed # {} /\ result = "pending") => Running /\ srcJsonWatcher = "open"


\* ---- C11 ----

\* C11: in watch mode the handler of a manifest whose esm and cjs flags are
\* both disabled starts no module bundler watch session.
C11_NoModuleSessionWhenDisabled ==
  [][\A h \in handlers :
       (h \notin handlers' /\ ~EsmEnabled(h.package) /\ ~CjsEnabled(h.package))
         => \A s \in openSessions' : ~(s.ev = h.ev /\ s.pass = ModulePass)]_vars


\* ---- C12 ----

WrittenWith(ext) == {w \in writes : EndsWith(w.path, ext)}

\* the writes of the minifier: the .min.js sibling of the pass's own bundle
MinifiedOutputs ==
  {w \in writes : /\ w.by.kind = "iife"
                  /\ w.path = MinifiedPath(buildIifeOutputFile(pkgDir, w.by.relSrcPath))}

\* C12: with --dev no CJS output is written, the minifier is never invoked and
\* the ESM output has sourcemaps; without --dev there are no sourcemaps, and
\* CJS (if enabled) and minified IIFE outputs are produced.
C12_DevSkipsCjsAndMinify ==
  /\ isDev =>
       /\ WrittenWith(Lit.cjs) = {}
       /\ MinifiedOutputs = {}
       /\ \A p \in DOMAIN iifes : iifes[p].pc # "minifying"
       /\ \A w \in WrittenWith(Lit.mjs) :
            \E s \in WrittenWith(Lit.map) : s.by = w.by /\ s.path = w.path \o Lit.map
  /\ ~isDev =>
       /\ WrittenWith(Lit.map) = {}
       /\ (modules.pc = "closed" /\ CjsEnabled(pkg) /\ FlattenPaths(relSrcPathMap) # <<>>)
            => WrittenWith(Lit.cjs) # {}
       /\ \A p \in DOMAIN iifes :
            iifes[p].pc = "done" => \E w \in MinifiedOutputs : w.by = p


\* ------------------------------------------------------------------------
\* One invocation of the script: the watch branch or the one-shot branch
\* ------------------------------------------------------------------------

InitInvocation == BuildInit \/ WatchInit

\* if (isWatch) { ... } else { ... }
NextInvocation == (isWatch /\ NextWatch) \/ (~isWatch /\ NextBuild)

SpecInvocation == InitInvocation /\ [][NextInvocation]_vars

\* ---- C13 ----

TypesPassStarted == types.pc \in {"rollup", "writing", "closed", "failed"}

\* C13: a types pass is started iff the invocation is a one-shot build whose
\* pipelines have been started and buildConfig.types is not false; watch mode
\* starts none; with types disabled the module pipeline still runs.
C13_TypesPassIffOneShotAndEnabled ==
  /\ TypesPassStarted <=> (~isWatch /\ Started /\ pkg.types # "false")
  /\ isWatch =>
       /\ types = TypesIdle
       /\ \A s \in openSessions : s.pass.kind # "types"
       /\ \A w \in writes : w.by.kind # "types"
  /\ (~isWatch /\ Started /\ pkg.types = "false") =>
       /\ types.pc = "skipped"
       /\ (pkg.esm # "false" \/ pkg.cjs # "false") => modules.pc # "skipped"

C13_Witness ==
  /\ ~isWatch /\ pkg.types = "false" /\ types.pc = "skipped"
  /\ modules.pc = "closed" /\ modules.esm = "written"


\* ---- C14 ----

\* the (entry, source path) pairs of the entries that declare an IIFE configuration
DeclaredIifePairs ==
  { [kind |-> "iife", entryId |-> x.entryId, relSrcPath |-> path] :
      <<x, path>> \in
        { <<y, q>> \in Range(relSrcPathMap) \X UNION {Range(z.relSrcPaths) : z \in Range(relSrcPathMap)} :
            /\ q \in Range(y.relSrcPaths)
            /\ pkg.exports[y.entryId].iife # NoIife } }

\* dist/<output identifier>.js and its .min.js sibling
IifeBundleOf(p) ==
  pkgDir \o <<"/">> \o Lit.dist \o <<"/">> \o buildOutputId(p.relSrcPath) \o Lit.js
IifeMinifiedOf(p) ==
  LET f == IifeBundleOf(p) IN Take(f, Len(f) - Len(Lit.js)) \o Lit.minJs

\* C14: one IIFE pass per (entry, source path) pair of the entries with an IIFE
\* configuration and none else; the minifier is invoked only once the write of
\* dist/<output identifier>.js has completed, on that file, giving the .min.js
\* sibling; the pass completes only after the minifier has finished.
C14_IifePassOrder ==
  /\ [](Started => DOMAIN iifes = DeclaredIifePairs)
  /\ [](\A p \in DOMAIN iifes :
          /\ iifes[p].pc \in {"writing", "minifying", "done"} =>
               [by |-> p, path |-> IifeBundleOf(p)] \in writes
          /\ [by |-> p, path |-> IifeMinifiedOf(p)] \in writes =>
               /\ iifes[p].pc \notin {"rollup", "writing"}
               /\ [by |-> p, path |-> IifeBundleOf(p)] \in writes
          /\ iifes[p].pc \in {"minifying", "done"} =>
               [by |-> p, path |-> IifeMinifiedOf(p)] \in writes
          /\ {w.path : w \in {v \in writes : v.by = p}}
               \subseteq {IifeBundleOf(p), IifeMinifiedOf(p)})
  /\ [][\A p \in DOMAIN iifes :
          /\ (iifes'[p].pc = "minifying" /\ iifes[p].pc # "minifying") => iifes[p].pc = "writing"
          /\ (iifes'[p].pc = "done" /\ iifes[p].pc # "done") => iifes[p].pc = "minifying"]_vars

C14_Witness ==
  /\ Running /\ pkg.exports \in {e \in BuildExports : Id.root \in DOMAIN e}
  /\ \E p, q \in DOMAIN iifes :
       /\ iifes[p].pc = "done" /\ iifes[q].pc = "writing"
       /\ [by |-> p, path |-> IifeMinifiedOf(p)] \in writes


\* ------------------------------------------------------------------------
\* externalize-globals
\* ------------------------------------------------------------------------

\* iifeGlobals[id], as a truth value: an own key with its global name, or a
\* member inherited from Object.prototype (a function, or an object)
GlobalsLookupTruthy(iifeGlobals, id) ==
  IF id \in DOMAIN iifeGlobals THEN iifeGlobals[id] # <<>>
  ELSE id \in ObjectPrototypeKeys

\* externalizeGlobals(iifeGlobals).resolveId(id)
externalizeGlobalsResolveId(iifeGlobals, id) ==
  IF GlobalsLookupTruthy(iifeGlobals, id) THEN External(id) ELSE Deferred

\* ---- the calls enumerated for externalize-globals ----

\* globals objects over the keys "jq" and "a"; a global name is 'jQ' or ''
GlobalsMaps ==
  UNION { [keys -> { <<"j","Q">>, <<>> }] : keys \in SUBSET { <<"j","q">>, <<"a">> } }

GlobalsIds ==
  { <<"j","q">>, <<"a">>, <<"b">>, <<"j","q","/","a">>,
    <<"c","o","n","s","t","r","u","c","t","o","r">> }

\* the pass of one entry; `others` are the globals another entry declares
InitGlobals ==
  /\ input \in [id : GlobalsIds, globals : GlobalsMaps, others : GlobalsMaps]
  /\ output = NotCalled
  /\ BuildIdle /\ WatchIdle

\* buildIifePlugins(pkgAnalysis, iifeConfig.globals || {}): the resolver of this pass
ResolveIdGlobals ==
  /\ output = NotCalled
  /\ output' = [called |-> TRUE, res |-> externalizeGlobalsResolveId(input.globals, input.id)]
  /\ UNCHANGED <<input, buildVars, watchVars>>

NextGlobals == ResolveIdGlobals

SpecGlobals == InitGlobals /\ [][NextGlobals]_vars

\* ---- C15 ----

\* C15: the resolver of an IIFE pass marks a specifier external iff it is a key
\* of the entry's declared globals, whatever name it maps to, and defers every
\* other specifier.
C15_ExternalIffDeclaredGlobal ==
  output # NotCalled =>
    output.res = IF input.id \in DOMAIN input.globals THEN External(input.id) ELSE Deferred


\* ------------------------------------------------------------------------
\* A wildcard entry from its generator to the input map and the
\* generated-content plugin
\* ------------------------------------------------------------------------

\* generatedContentPlugin: the pathContentMap its two loops build
pathContentMap(dir, contentMap, iifeContentMap) ==
  LET RECURSIVE Put(_, _, _, _)
      Put(entryIds, m, ext, acc) ==
        IF entryIds = <<>> THEN acc
        ELSE Put(Tail(entryIds), m, ext,
               ObjectAssign(acc, [k \in {buildTscPath(dir, Head(entryIds), ext)} |->
                                    m[Head(entryIds)]]))
  IN Put(KeysInOrder(DOMAIN iifeContentMap), iifeContentMap, Lit.iifeJs,
         Put(KeysInOrder(DOMAIN contentMap), contentMap, Lit.js, EmptyMap))

\* the keys of the mappings a generator returns
ExpandKeys == { <<"a">>, <<"b">>, <<"a",".","m","i","n">>, <<"a",".","t","s">> }

InitExpand ==
  /\ input \in [ entryId : { <<".","/","p","/","*">>, <<".","/","*">> },
                 res : UNION {[K -> Texts] : K \in SUBSET ExpandKeys} ]
  /\ output = NotCalled
  /\ BuildIdle /\ WatchIdle

\* analyzePkg of a package whose one entry is input.entryId with a generator
\* returning input.res, then buildInputMap(pkgAnalysis, '.js') and
\* generatedContentPlugin(pkgAnalysis) as bundleModules calls them
ExpandWildcard ==
  /\ output = NotCalled
  /\ LET g == [imports |-> TRUE, default |-> "function", throws |-> FALSE,
               returns |-> JsObject(input.res)]
         package == [exports |-> [e \in {input.entryId} |-> [generator |-> g, iife |-> NoIife]],
                     files |-> {}]
         r == resolveEntry(package, input.entryId)
         m == <<[entryId |-> input.entryId, relSrcPaths |-> r.value.relSrcPaths]>>
     IN output' = [ called |-> TRUE,
                    contentMap |-> r.value.contentMap,
                    relSrcPaths |-> r.value.relSrcPaths,
                    inputMap |-> buildInputMap(pkgDir, m, Lit.js),
                    pathContentMap |-> pathContentMap(pkgDir, r.value.contentMap, EmptyMap) ]
  /\ UNCHANGED <<input, buildVars, watchVars>>

NextExpand == ExpandWildcard

SpecExpand == InitExpand /\ [][NextExpand]_vars

\* ---- C16 ----

\* the entry identifier with its wildcard replaced by key
ExpandedId(key) ==
  LET i == IndexOf(input.entryId, <<"*">>)
  IN Take(input.entryId, i - 1) \o key \o Drop(input.entryId, i)

\* C16: for a wildcard entry whose generator returns a mapping with key set K:
\* one expanded entry identifier per key, one source path per expanded
\* identifier, one distinct output identifier per key in the input map, each
\* mapped to the path under which the generated-content plugin holds the
\* key's text.
C16_OneInputPerKey ==
  output # NotCalled =>
    LET K == DOMAIN input.res
        OutputIdOf(key) == Drop(ExpandedId(key), 2)
    IN /\ DOMAIN output.contentMap = {ExpandedId(k) : k \in K}
       /\ Cardinality(DOMAIN output.contentMap) = Cardinality(K)
       /\ Len(output.relSrcPaths) = Cardinality(K)
       /\ Range(output.relSrcPaths) = {ExpandedId(k) \o Lit.ts : k \in K}
       /\ DOMAIN output.inputMap = {OutputIdOf(k) : k \in K}
       /\ Cardinality(DOMAIN output.inputMap) = Cardinality(K)
       /\ \A k \in K :
            /\ output.inputMap[OutputIdOf(k)] \in DOMAIN output.pathContentMap
            /\ output.pathContentMap[output.inputMap[OutputIdOf(k)]] = input.res[k]


\* ---- C17 ----

\* C17: an analysis is returned only when every wildcard entry identifier has
\* a generator and that generator returns a mapping.
C17_WildcardNeedsMappingGenerator ==
  analyzePc = "returned" =>
    \A e \in DOMAIN pkg.exports :
      IndexOf(e, <<"*">>) # 0 =>
        /\ pkg.exports[e].generator # NoGenerator
        /\ pkg.exports[e].generator.returns.t = "object"


\* ---- C18 ----

\* C18: a returned analysis has a source-path list for every declared entry,
\* non-empty for every non-wildcard entry, and holds no generated content
\* when no entry has a generator.
C18_NonEmptySourcePaths ==
  analyzePc = "returned" =>
    /\ {x.entryId : x \in Range(relSrcPathMap)} = DOMAIN pkg.exports
    /\ \A x \in Range(relSrcPathMap) :
         IndexOf(x.entryId, <<"*">>) = 0 => x.relSrcPaths # <<>>
    /\ (\A e \in DOMAIN pkg.exports : /\ pkg.exports[e].generator = NoGenerator
                                       /\ ~HasIifeGenerator(pkg.exports[e]))
         => entryContentMap = EmptyMap /\ iifeEntryContentMap = EmptyMap


\* ---- C19 ----

\* what a returned analysis of package holds, whatever the order in which its
\* entry resolutions ran: a function of the manifest, the source tree and the
\* generators alone
SourcePathsOf(package, e) == resolveEntry(package, e).value.relSrcPaths
ContentKeysOf(package) ==
  UNION {DOMAIN resolveEntry(package, e).value.contentMap : e \in DOMAIN package.exports}
IifeContentKeysOf(package) ==
  UNION { UNION {DOMAIN generateIifeEntry(package, e, q).value :
                   q \in Range(SourcePathsOf(package, e))} :
          e \in {d \in DOMAIN package.exports : HasIifeGenerator(package.exports[d])} }

\* C19: every returned analysis of the same package has the same entry
\* identifiers, the same source-path list per entry and the same keys in both
\* content mappings, under every interleaving of the entry resolutions.
C19_AnalysisDeterministic ==
  analyzePc = "returned" =>
    /\ {x.entryId : x \in Range(relSrcPathMap)} = DOMAIN pkg.exports
    /\ Len(relSrcPathMap) = Cardinality(DOMAIN pkg.exports)
    /\ \A x \in Range(relSrcPathMap) : x.relSrcPaths = SourcePathsOf(pkg, x.entryId)
    /\ DOMAIN entryContentMap = ContentKeysOf(pkg)
    /\ DOMAIN iifeEntryContentMap = IifeContentKeysOf(pkg)

\* the resolution of "./a" finished before that of "."
C19_Witness ==
  /\ analyzePc = "returned" /\ Len(relSrcPathMap) = 2
  /\ relSrcPathMap[1].entryId = Id.a /\ relSrcPathMap[2].entryId = Id.root
  /\ entryContentMap # EmptyMap /\ iifeEntryContentMap # EmptyMap


\* ------------------------------------------------------------------------
\* buildOutputId and buildInputMap as functions
\* ------------------------------------------------------------------------

\* relative paths given to buildOutputId: a prefix, a stem and an extension
OutputIdPaths ==
  { p \o s \o e :
      p \in { <<>>, Lit.dotSlash, Lit.dotSlash \o Lit.dotSlash, <<".",".","/">> },
      s \in { <<"a">>, <<"f","o","o","/","b","a","r">>, Lit.index, <<"a",".","t","s">>,
              <<"a",".","j","s","x">> },
      e \in { <<>>, Lit.ts, Lit.tsx, Lit.js, Lit.jsx, Lit.mjs, Lit.dts, <<".","t","s","x","x">> } }

\* source paths as analyzePkg resolves them: glob results, and "./<key>.ts"
ResolvedPaths ==
  { File.aTs, File.aTsx, File.indexTs, Lit.dotSlash \o File.aTs,
    <<".","/","p","/","a",".","t","s">> }

InitPaths ==
  /\ \/ \E p \in OutputIdPaths :
          input = [fn |-> "buildOutputId", relSrcPath |-> p, m |-> <<>>, ext |-> <<>>]
     \/ \E s1, s2 \in UNION {[1..n -> ResolvedPaths] : n \in 1..2}, x \in {Lit.js, Lit.dts} :
          input = [fn |-> "buildInputMap", relSrcPath |-> <<>>, ext |-> x,
                   m |-> << [entryId |-> Id.root, relSrcPaths |-> s1],
                            [entryId |-> Id.a, relSrcPaths |-> s2] >>]
  /\ output = NotCalled
  /\ BuildIdle /\ WatchIdle

CallBuildOutputId ==
  /\ output = NotCalled /\ input.fn = "buildOutputId"
  /\ output' = [called |-> TRUE, res |-> buildOutputId(input.relSrcPath)]
  /\ UNCHANGED <<input, buildVars, watchVars>>

CallBuildInputMap ==
  /\ output = NotCalled /\ input.fn = "buildInputMap"
  /\ output' = [called |-> TRUE, res |-> buildInputMap(pkgDir, input.m, input.ext)]
  /\ UNCHANGED <<input, buildVars, watchVars>>

NextPaths == CallBuildOutputId \/ CallBuildInputMap

SpecPaths == InitPaths /\ [][NextPaths]_vars

\* ---- C20 ----

\* path without one leading "./" and without one trailing .ts/.tsx/.js/.jsx
WithoutPrefixAndExt(path) ==
  LET a == IF StartsWith(path, <<".","/">>) THEN Drop(path, 2) ELSE path
      exts == {e \in {Lit.ts, Lit.tsx, Lit.js, Lit.jsx} : EndsWith(a, e)}
  IN IF exts = {} THEN a
     ELSE LET e == CHOOSE x \in exts : TRUE IN Take(a, Len(a) - Len(e))

Reverse(s) == [i \in 1..Len(s) |-> s[Len(s) + 1 - i]]

\* C20: buildOutputId strips one leading "./" and one trailing .ts, .tsx, .js
\* or .jsx and nothing else; buildInputMap maps, for every resolved source path
\* p, exactly the key buildOutputId(p) to the intermediate path of p with the
\* requested extension, whatever the order of the entries.
C20_OutputIdAndInputMap ==
  /\ buildOutputId(<<".","/","f","o","o","/","b","a","r",".","t","s">>)
       = <<"f","o","o","/","b","a","r">>
  /\ buildOutputId(<<".","/","i","n","d","e","x",".","t","s","x">>) = Lit.index
  /\ (output # NotCalled /\ input.fn = "buildOutputId") =>
       output.res = WithoutPrefixAndExt(input.relSrcPath)
  /\ (output # NotCalled /\ input.fn = "buildInputMap") =>
       LET paths == UNION {Range(x.relSrcPaths) : x \in Range(input.m)}
       IN /\ DOMAIN output.res = {WithoutPrefixAndExt(p) : p \in paths}
          /\ \A p \in paths :
               output.res[WithoutPrefixAndExt(p)] = buildTscPath(pkgDir, p, input.ext)
          /\ output.res = buildInputMap(pkgDir, Reverse(input.m), input.ext)

\* a.ts of one entry and a.tsx of the other share the output identifier "a"
C20_Witness ==
  /\ output # NotCalled /\ input.fn = "buildInputMap"
  /\ File.aTs \in Range(input.m[1].relSrcPaths)
  /\ File.aTsx \in Range(input.m[2].relSrcPaths)
  /\ Cardinality(DOMAIN output.res) = 1


\* ------------------------------------------------------------------------
\* writeDistPkgJson: the manifest written to dist/
\* ------------------------------------------------------------------------

\* A manifest is a function from its field names to values; the value of a
\* field other than buildConfig, exports and repository is a text naming the
\* manifest it came from.

\* the entry name taken as the subpath
entrySubpathAsIs(entryName) == entryName

\* entryName === '.' ? './index' : entryName
entrySubpath(entryName) ==
  IF entryName = <<".">> THEN Lit.dotSlash \o Lit.index ELSE entryName

\* isDev ? './.tsout' : '.'
typesRoot(dev) == IF dev THEN <<".","/",".","t","s","o","u","t">> ELSE <<".">>

\* the value mapObj's callback returns for one entry
exportConditions(entryName, dev) ==
  LET s == entrySubpath(entryName)
  IN [ require |-> s \o Lit.cjs,
       import  |-> s \o Lit.mjs,
       types   |-> (IF StartsWith(s, <<".">>) THEN typesRoot(dev) \o Drop(s, 1) ELSE s)
                     \o Lit.dts,
       default |-> s \o Lit.js ]

\* mapObj(obj, f): the object with the keys of obj and the values f(value, key)
mapObj(obj, F(_, _)) == [k \in DOMAIN obj |-> F(obj[k], k)]

\* the object literal assigned to finalPkgJson, after the six deletes and the
\* assignment of repository.directory
finalPkgJson(basePkgJson, pkgJson, dev) ==
  LET Conditions(entryConfig, entryName) == exportConditions(entryName, dev)
      indexMinJs == Lit.dotSlash \o Lit.index \o Lit.minJs
      produced ==
        [ f \in {"main", "module", "types", "unpkg", "jsdelvr", "exports"} |->
            CASE f = "main"    -> Lit.dotSlash \o Lit.index \o Lit.cjs
              [] f = "module"  -> Lit.dotSlash \o Lit.index \o Lit.mjs
              [] f = "types"   -> typesRoot(dev) \o <<"/">> \o Lit.index \o Lit.dts
              [] f = "exports" ->
                   ObjectAssign(
                     [k \in { <<".","/","p","a","c","k","a","g","e",".","j","s","o","n">> } |-> k],
                     mapObj(pkgJson["buildConfig"].exports, Conditions))
              [] OTHER         -> indexMinJs ]
      literal == ObjectAssign(ObjectAssign(basePkgJson, pkgJson), produced)
      kept == DOMAIN literal
                \ {"scripts", "devDependencies", "tsConfig", "buildConfig", "publishConfig", "private"}
  IN [ f \in kept |->
         IF f = "repository" THEN [literal[f] EXCEPT !.directory = <<"p">>] ELSE literal[f] ]

\* ---- the calls enumerated for writeDistPkgJson ----

\* the package manifest, and the manifest of the monorepo root it is merged over
PkgJsons ==
  { [f \in {"name"} \cup opt \cup bc |->
       CASE f = "buildConfig" -> [exports |-> [e \in ids |-> PlainEntry]]
         [] f = "repository"  -> [kind |-> "object", url |-> "pkg", directory |-> <<>>]
         [] f = "exports"     -> EmptyMap
         [] OTHER             -> "pkg"] :
      opt \in SUBSET {"scripts", "devDependencies", "private", "exports", "repository"},
      bc \in {{}, {"buildConfig"}},
      ids \in SUBSET {Id.root, Id.a} }

BasePkgJsons ==
  { [f \in {"license"} \cup opt |->
       IF f = "repository" THEN [kind |-> "object", url |-> "base", directory |-> <<>>]
       ELSE "base"] :
      opt \in SUBSET {"repository", "tsConfig", "publishConfig"} }

InitJson ==
  /\ input \in [pkgJson : PkgJsons, basePkgJson : BasePkgJsons, isDev : BOOLEAN]
  /\ output = NotCalled
  /\ BuildIdle /\ WatchIdle

\* writeDistPkgJson(pkgDir, pkgJson, isDev); io is whether readPkgJson, mkdir
\* and writePkgJson all succeed
WriteDistPkgJson ==
  /\ output = NotCalled
  /\ \E io \in BOOLEAN :
       output' =
         IF "buildConfig" \notin DOMAIN input.pkgJson
         THEN [called |-> TRUE, status |-> "nothing"]
         ELSE IF ~io
         THEN [called |-> TRUE, status |-> "error"]
         ELSE IF "repository" \notin DOMAIN input.pkgJson \cup DOMAIN input.basePkgJson
         THEN [called |-> TRUE, status |-> "error"]
         ELSE [called |-> TRUE, status |-> "written",
               file |-> finalPkgJson(input.basePkgJson, input.pkgJson, input.isDev)]
  /\ UNCHANGED <<input, buildVars, watchVars>>

NextJson == WriteDistPkgJson

SpecJson == InitJson /\ [][NextJson]_vars

\* ---- C21 ----

NoImporter == <<>>

\* /^\.\.?\/?/.test(path)
isPathRelative(path) == StartsWith(path, <<".">>)

\* path.dirname of a path with at least one "/" after its first character
dirname(path) ==
  LET slashes == {i \in 2..Len(path) : path[i] = "/"}
  IN IF slashes = {} THEN <<".">>
     ELSE Take(path, (CHOOSE i \in slashes : \A j \in slashes : j <= i) - 1)

Undefined == [defined |-> FALSE]
Defined(v) == [defined |-> TRUE, value |-> v]

\* computeImportPath(id, importer); resolvePath(id) is relative to the working
\* directory, which is the package directory
computeImportPath(id, importer) ==
  IF importer = NoImporter
  THEN IF isPathRelative(id) THEN Defined(joinPaths(<<pkgDir, id>>)) ELSE Defined(id)
  ELSE IF isPathRelative(id) THEN Defined(joinPaths(<<dirname(importer), id>>))
  ELSE Undefined

\* pathContentMap[key]: an own entry, or a member inherited from Object.prototype
PathContentLookup(map, key) ==
  IF key \in DOMAIN map THEN Defined(map[key])
  ELSE IF key \in ObjectPrototypeKeys THEN Defined("[inherited]")
  ELSE Undefined

\* the truth value of `importPath && pathContentMap[importPath]`
PathContentTruthy(map, key) ==
  LET v == PathContentLookup(map, key) IN v.defined /\ v.value # ""

\* generatedContentPlugin(pkgAnalysis).resolveId(id, importer)
generatedContentResolveId(map, id, importer) ==
  LET importPath == computeImportPath(id, importer)
  IN IF importPath.defined /\ importPath.value # <<>>
        /\ PathContentTruthy(map, importPath.value)
     THEN ResolvedTo(importPath.value)
     ELSE Deferred

\* generatedContentPlugin(pkgAnalysis).load(id)
generatedContentLoad(map, id) == PathContentLookup(map, id)

\* ---- the calls enumerated for generated-content ----

tscDir == <<"/","w","/","d","i","s","t","/",".","t","s","c","/">>

InitPlugin ==
  /\ input \in
       [ hook : {"resolveId", "load"},
         contentMap : UNION {[K -> Texts] : K \in SUBSET { <<".","/","a">>, <<".","/","b">> }},
         iifeContentMap : UNION {[K -> Texts] : K \in SUBSET { <<"a">> }},
         id : { tscDir \o <<"a">> \o Lit.js, tscDir \o <<"b">> \o Lit.js,
                tscDir \o <<"a">> \o Lit.iifeJs, tscDir \o <<"c">> \o Lit.js,
                Lit.dotSlash \o <<"a">> \o Lit.js,
                <<"c","o","n","s","t","r","u","c","t","o","r">> },
         importer : {NoImporter, tscDir \o Lit.index \o Lit.js} ]
  /\ output = NotCalled
  /\ BuildIdle /\ WatchIdle

CallGeneratedContentHook ==
  /\ output = NotCalled
  /\ LET map == pathContentMap(pkgDir, input.contentMap, input.iifeContentMap)
     IN output' = [ called |-> TRUE,
                    res |-> IF input.hook = "resolveId"
                            THEN generatedContentResolveId(map, input.id, input.importer)
                            ELSE generatedContentLoad(map, input.id) ]
  /\ UNCHANGED <<input, buildVars, watchVars>>

NextPlugin == CallGeneratedContentHook

SpecPlugin == InitPlugin /\ [][NextPlugin]_vars

\* ---- C22 ----

\* the intermediate paths of the expanded entry identifiers, with their texts
GeneratedTexts ==
  LET P(e, ext) == tscDir \o StripDotSlash(e) \o ext
      lib == {<<P(e, Lit.js), input.contentMap[e]>> : e \in DOMAIN input.contentMap}
      iife == {<<P(e, Lit.iifeJs), input.iifeContentMap[e]>> : e \in DOMAIN input.iifeContentMap}
  IN lib \cup iife

\* C22: for every expanded entry identifier of either mapping and every text,
\* the empty one included, resolveId claims the entry's intermediate path and
\* load returns exactly its text; both hooks defer every other path.
C22_ClaimsEveryGeneratedPath ==
  output # NotCalled =>
    LET paths == {g[1] : g \in GeneratedTexts}
        TextAt(path) == (CHOOSE g \in GeneratedTexts : g[1] = path)[2]
        importPath == computeImportPath(input.id, input.importer)
    IN IF input.hook = "resolveId"
       THEN output.res = IF importPath.defined /\ importPath.value \in paths
                         THEN ResolvedTo(importPath.value) ELSE Deferred
       ELSE output.res = IF input.id \in paths THEN Defined(TextAt(input.id)) ELSE Undefined


\* ---- C23 ----

\* C23: once every handler has finished (none failed, no shutdown), the open
\* sessions are those spawned for the most recent manifest event.
C23_LatestEventWins ==
  (Running /\ result = "pending" /\ handlers = {} /\ failed = {} /\ changes > 0) =>
    \A s \in openSessions : s.ev = changes


\* ------------------------------------------------------------------------
\* analyzePkg on entries that expand to the same identifier
\* ------------------------------------------------------------------------

OverlapTexts == {"x", "y"}

\* a generator returning a text, and one returning { a: text }
gText(text) ==
  [imports |-> TRUE, default |-> "function", throws |-> FALSE, returns |-> JsString(text)]
gKeyA(text) ==
  [imports |-> TRUE, default |-> "function", throws |-> FALSE,
   returns |-> JsObject([k \in {<<"a">>} |-> text])]

OverlapIifes == {NoIife} \cup {[globals |-> {}, generator |-> gText(t)] : t \in OverlapTexts}

\* manifests declaring "./a" and "./*", both of which expand to "./a"
OverlapPkgs ==
  { [ exports |-> [e \in {Id.a, Id.all} |->
                     IF e = Id.a THEN [generator |-> gText(t1), iife |-> i1]
                                 ELSE [generator |-> gKeyA(t2), iife |-> i2]],
      files |-> {File.aTs}, esm |-> "unset", cjs |-> "unset", types |-> "unset" ] :
      t1 \in OverlapTexts, t2 \in OverlapTexts, i1 \in OverlapIifes, i2 \in OverlapIifes }

InitAnalyze ==
  /\ PureIdle
  /\ isDev = FALSE /\ isWatch = FALSE
  /\ pkg \in OverlapPkgs
  /\ proc = "running" /\ result = "pending"
  /\ analyzePc = "reading" /\ task = <<>>
  /\ relSrcPathMap = <<>> /\ entryContentMap = EmptyMap /\ iifeEntryContentMap = EmptyMap
  /\ modules = ModulesIdle /\ iifes = <<>> /\ types = TypesIdle
  /\ writes = {}
  /\ WatchIdle

NextAnalyze ==
  \/ ReadMetaOk
  \/ ReadMetaFails
  \/ \E e \in DOMAIN task : EntryResolved(e)
  \/ \E e \in DOMAIN task : EntryFails(e)
  \/ \E e \in DOMAIN task : IifeGenerated(e)
  \/ \E e \in DOMAIN task : IifeGenerateFails(e)

SpecAnalyze == InitAnalyze /\ [][NextAnalyze]_vars


\* ---- C24 ----

\* the content mapping left by resolving the entries one after another, in the
\* order given
RECURSIVE ContentInOrder(_, _, _)
ContentInOrder(package, entryIds, acc) ==
  IF entryIds = <<>> THEN acc
  ELSE ContentInOrder(package, Tail(entryIds),
         ObjectAssign(acc, resolveEntry(package, Head(entryIds)).value.contentMap))

\* C24: the text stored for every expanded entry identifier is the same in every
\* interleaving of the entry resolutions: the one that resolving the entries in
\* the order of the manifest stores.
C24_TextsIndependentOfOrder ==
  analyzePc = "returned" =>
    entryContentMap = ContentInOrder(pkg, KeysInOrder(DOMAIN pkg.exports), EmptyMap)


\* ------------------------------------------------------------------------
\* Ghost files: updateGhostFiles over the git index and the working tree
\* ------------------------------------------------------------------------

monorepoDir == <<"/","m">>

\* Object.keys(ghostFileConfigMap): one file that is copied, one that is generated
ghostFileSubpaths == << <<"g","1">>, <<"g","2">> >>
ghostFileHasGenerator(subpath) == subpath = <<"g","2">>

getGhostFilePaths(dir, subdirs) ==
  LET n == Len(ghostFileSubpaths)
  IN [k \in 1..(Len(subdirs) * n) |->
        joinPaths(<<dir, subdirs[((k - 1) \div n) + 1], ghostFileSubpaths[((k - 1) % n) + 1]>>)]

\* the results of querySubrepoSubdirs
SubdirLists == { <<>>, << <<"s","1">> >>, << <<"s","1">>, <<"s","2">> >> }

\* what a ghost file path is in the repository when the script starts:
\*   "absent"       not in the index, no file
\*   "untracked"    not in the index, a file in the working tree
\*   "hidden"       in the index, assume-unchanged, no file
\*   "hiddenStaged" the same, the index differing from HEAD (an earlier --no-commit run)
\*   "visible"      in the index, a file in the working tree
PathStatuses == {"absent", "untracked", "hidden", "hiddenStaged", "visible"}

GhostStart(paths, st) ==
  [ pc |-> "start", i |-> 0, pending |-> {}, anyAdded |-> FALSE,
    index   |-> {p \in Range(paths) : st[p] \in {"hidden", "hiddenStaged", "visible"}},
    assumed |-> {p \in Range(paths) : st[p] \in {"hidden", "hiddenStaged"}},
    staged  |-> {p \in Range(paths) : st[p] = "hiddenStaged"},
    tree    |-> {p \in Range(paths) : st[p] \in {"untracked", "visible"}},
    phases |-> <<>>, stagedAfterAdd |-> {}, committed |-> FALSE ]

\* the step kinds issued so far, each listed when it is first issued after
\* another kind
Issued(g, kind) ==
  IF g.phases # <<>> /\ g.phases[Len(g.phases)] = kind THEN g
  ELSE [g EXCEPT !.phases = Append(@, kind)]

\* the control flow of updateGhostFiles between its awaits
RECURSIVE updateGhostFiles(_, _, _)
updateGhostFiles(g, paths, doCommit) ==
  IF g.pc = "reveal" /\ g.i > Len(paths)
  THEN updateGhostFiles([g EXCEPT !.pc = "write", !.pending = Range(paths)], paths, doCommit)
  ELSE IF g.pc = "write" /\ g.pending = {}
  THEN updateGhostFiles([g EXCEPT !.pc = "add", !.i = 1], paths, doCommit)
  ELSE IF g.pc = "add" /\ g.i > Len(paths)
  THEN LET h == [g EXCEPT !.stagedAfterAdd = g.staged \cap Range(paths)]
       IN IF g.anyAdded /\ doCommit
          THEN [h EXCEPT !.pc = "commit"]
          ELSE updateGhostFiles([h EXCEPT !.pc = "hide", !.i = 1], paths, doCommit)
  ELSE IF g.pc = "hide" /\ g.i > Len(paths)
  THEN [g EXCEPT !.pc = "done"]
  ELSE g

\* one iteration of revealFiles up to checkoutFile
revealFile(g, path) ==
  IF path \in g.index THEN [g EXCEPT !.assumed = @ \ {path}] ELSE g

\* one iteration of hideFiles that leaves the file in place
hideFileKeeping(g, path) ==
  IF path \in g.index THEN [g EXCEPT !.assumed = @ \cup {path}] ELSE g

\* one iteration of hideFiles
hideFile(g, path) ==
  IF path \in g.index
  THEN [g EXCEPT !.assumed = @ \cup {path}, !.tree = @ \ {path}]
  ELSE g

GhostPaths == getGhostFilePaths(monorepoDir, input.subdirs)

InitGhost ==
  /\ input \in [subdirs : SubdirLists, doCommit : BOOLEAN]
  /\ output \in {GhostStart(GhostPaths, st) : st \in [Range(GhostPaths) -> PathStatuses]}
  /\ BuildIdle /\ WatchIdle

GhostStep(g) ==
  /\ output' = updateGhostFiles(g, GhostPaths, input.doCommit)
  /\ UNCHANGED <<input, buildVars, watchVars>>

GhostFails(g) ==
  /\ output' = [g EXCEPT !.pc = "failed"]
  /\ UNCHANGED <<input, buildVars, watchVars>>

StartGhost ==
  /\ output.pc = "start"
  /\ GhostStep([output EXCEPT !.pc = "reveal", !.i = 1])

\* revealFiles: the path is not in the index, or it is and checkoutFile resolved
RevealFile ==
  /\ output.pc = "reveal"
  /\ LET path == GhostPaths[output.i]
         g == Issued(revealFile(output, path), "reveal")
     IN GhostStep([g EXCEPT !.i = @ + 1,
                            !.tree = IF path \in g.index THEN @ \cup {path} ELSE @])

\* checkoutFile rejected
RevealFails ==
  /\ output.pc = "reveal"
  /\ GhostPaths[output.i] \in output.index
  /\ GhostFails(Issued(revealFile(output, GhostPaths[output.i]), "reveal"))

\* writeSubdirFile: the generator's result is a string or not; or the copy
WriteSubdirFile(subdir, subpath) ==
  LET path == joinPaths(<<monorepoDir, subdir, subpath>>)
  IN /\ output.pc \in {"write", "failed"}
     /\ path \in output.pending
     /\ \E isString \in (IF ghostFileHasGenerator(subpath) THEN BOOLEAN ELSE {TRUE}) :
          GhostStep([Issued(output, "write") EXCEPT
                       !.pending = @ \ {path},
                       !.tree = IF isString THEN @ \cup {path} ELSE @])

\* the generator, readFile, writeFile or copyFile rejected
WriteFails(subdir, subpath) ==
  LET path == joinPaths(<<monorepoDir, subdir, subpath>>)
  IN /\ output.pc = "write"
     /\ path \in output.pending
     /\ GhostFails([Issued(output, "write") EXCEPT !.pending = @ \ {path}])

\* addFiles: the file does not exist, or it is added and isStaged answers
AddFile ==
  /\ output.pc = "add"
  /\ LET path == GhostPaths[output.i]
         g == Issued(output, "add")
     IN IF path \notin g.tree
        THEN GhostStep([g EXCEPT !.i = @ + 1])
        ELSE \E differs \in (IF path \in g.index THEN BOOLEAN ELSE {TRUE}) :
               GhostStep([g EXCEPT !.i = @ + 1,
                                   !.index = @ \cup {path},
                                   !.staged = IF differs THEN @ \cup {path} ELSE @ \ {path},
                                   !.anyAdded = @ \/ differs])

\* fileExists, addFile or isStaged rejected
AddFails ==
  /\ output.pc = "add"
  /\ GhostFails(Issued(output, "add"))

CommitDir ==
  /\ output.pc = "commit"
  /\ GhostStep([Issued(output, "commit") EXCEPT
                  !.pc = "hide", !.i = 1, !.committed = TRUE, !.staged = {}])

CommitFails ==
  /\ output.pc = "commit"
  /\ GhostFails(Issued(output, "commit"))

HideFile ==
  /\ output.pc = "hide"
  /\ GhostStep([Issued(hideFile(output, GhostPaths[output.i]), "hide") EXCEPT !.i = @ + 1])

\* rm rejected
HideFails ==
  /\ output.pc = "hide"
  /\ GhostPaths[output.i] \in output.index
  /\ GhostFails(Issued([output EXCEPT !.assumed = @ \cup {GhostPaths[output.i]}], "hide"))

NextGhost ==
  \/ StartGhost
  \/ RevealFile
  \/ RevealFails
  \/ \E subdir \in Range(input.subdirs) : \E subpath \in Range(ghostFileSubpaths) :
       WriteSubdirFile(subdir, subpath)
  \/ \E subdir \in Range(input.subdirs) : \E subpath \in Range(ghostFileSubpaths) :
       WriteFails(subdir, subpath)
  \/ AddFile
  \/ AddFails
  \/ CommitDir
  \/ CommitFails
  \/ HideFile
  \/ HideFails

SpecGhost == InitGhost /\ [][NextGhost]_vars


\* ---- C25 ----

PhaseOrder == <<"reveal", "write", "add", "commit", "hide">>
PhaseRank(kind) == CHOOSE k \in 1..Len(PhaseOrder) : PhaseOrder[k] = kind

\* C25: the step kinds are issued in the order reveal, write, add, commit, hide;
\* the commit is issued exactly when doCommit holds and a ghost file is staged
\* after the add step, and before any file is hidden; and when the operation
\* completes, every ghost file path in the index is assume-unchanged and absent
\* from the working tree.
C25_GhostFileSteps ==
  LET g == output
      paths == Range(GhostPaths)
  IN /\ \A j \in 1..Len(g.phases), k \in 1..Len(g.phases) :
          j < k => PhaseRank(g.phases[j]) < PhaseRank(g.phases[k])
     /\ g.committed => input.doCommit /\ g.stagedAfterAdd # {}
     /\ g.pc = "commit" => input.doCommit /\ g.stagedAfterAdd # {}
     /\ g.pc \in {"hide", "done"} =>
          (g.committed <=> (input.doCommit /\ g.stagedAfterAdd # {}))
     /\ g.pc = "done" =>
          \A p \in paths : p \in g.index => p \in g.assumed /\ p \notin g.tree

\* a run over four paths that committed and hid a file, one path never in the index
C25_Witness ==
  /\ output.pc = "done" /\ output.committed
  /\ Len(GhostPaths) = 4
  /\ \E p \in Range(GhostPaths) : p \in output.index
  /\ \E p \in Range(GhostPaths) : p \notin output.index


\* ------------------------------------------------------------------------
\* Resource mutation of an event definition
\* ------------------------------------------------------------------------

MaxResourceIds == 3

ResourceIds == {"a", "b", "c"}

\* null or undefined, true, false
Nullish == "null"
Editables == {Nullish, "true", "false"}

\* a mutation without resourceMutation
NoResourceMutation == [matchResourceId |-> Nullish]

computeResourceEditable(eventDef, context) ==
  IF eventDef.resourceEditable # Nullish THEN eventDef.resourceEditable
  ELSE LET hasSource == /\ eventDef.sourceId # ""
                        /\ eventDef.sourceId \in DOMAIN context.eventSources
           fromSource == IF hasSource
                         THEN context.eventSources[eventDef.sourceId].resourceEditable
                         ELSE Nullish
       IN IF fromSource # Nullish THEN fromSource
          ELSE IF context.options.eventResourceEditable # Nullish
          THEN context.options.eventResourceEditable
          ELSE context.options.editable

\* Array.prototype.indexOf
arrayIndexOf(list, x) ==
  IF \E k \in 1..Len(list) : list[k] = x
  THEN (CHOOSE k \in 1..Len(list) : list[k] = x /\ \A j \in 1..(k - 1) : list[j] # x) - 1
  ELSE -1

\* list.splice(index, 1)
splice(list, index) == SubSeq(list, 1, index) \o SubSeq(list, index + 2, Len(list))

\* arrays live on a heap: [ref -> elements]; the event holds a reference
\* a "copy" that is the array itself
sliceAliasing(heap, ref) == [heap |-> heap, ref |-> ref]

\* list.slice(): a new array with the same elements
slice(heap, ref) ==
  [ heap |-> [r \in DOMAIN heap \cup {"fresh"} |-> IF r = "fresh" THEN heap[ref] ELSE heap[r]],
    ref |-> "fresh" ]

applyEventDefMutation(eventDef, heap, mutation, context) ==
  LET resourceMutation == mutation.resourceMutation
      unchanged == [eventDef |-> eventDef, heap |-> heap]
  IN IF resourceMutation = NoResourceMutation \/ computeResourceEditable(eventDef, context) # "true"
     THEN unchanged
     ELSE LET index == arrayIndexOf(heap[eventDef.resourceIds], resourceMutation.matchResourceId)
          IN IF index = -1 THEN unchanged
             ELSE LET copy == slice(heap, eventDef.resourceIds)
                      removed == splice(copy.heap[copy.ref], index)
                      resourceIds ==
                        IF arrayIndexOf(removed, resourceMutation.setResourceId) = -1
                        THEN Append(removed, resourceMutation.setResourceId)
                        ELSE removed
                  IN [ eventDef |-> [eventDef EXCEPT !.resourceIds = copy.ref],
                       heap |-> [copy.heap EXCEPT ![copy.ref] = resourceIds] ]

ResourceIdLists == UNION {[1..n -> ResourceIds] : n \in 0..MaxResourceIds}

ResourceMutations ==
  {NoResourceMutation} \cup [matchResourceId : {"a", "b"}, setResourceId : ResourceIds]

\* the event's source: none, unknown to the calendar, or known
EventSourceCases ==
  { [sourceId |-> "", eventSources |-> [s \in {"s"} |-> [resourceEditable |-> "true"]]],
    [sourceId |-> "s", eventSources |-> <<>>] }
    \cup { [sourceId |-> "s", eventSources |-> [s \in {"s"} |-> [resourceEditable |-> v]]] :
             v \in Editables }

InitMutation ==
  /\ input \in [ resourceIds : ResourceIdLists, resourceEditable : Editables,
                 source : EventSourceCases, resourceMutation : ResourceMutations,
                 eventResourceEditable : Editables, editable : Editables ]
  /\ output = NotCalled
  /\ BuildIdle /\ WatchIdle

MutationEventDef ==
  [ resourceIds |-> "old", resourceEditable |-> input.resourceEditable,
    sourceId |-> input.source.sourceId ]

MutationContext ==
  [ eventSources |-> input.source.eventSources,
    options |-> [eventResourceEditable |-> input.eventResourceEditable,
                 editable |-> input.editable] ]

CallApplyEventDefMutation ==
  /\ output = NotCalled
  /\ output' = [ called |-> TRUE,
                 res |-> applyEventDefMutation(MutationEventDef,
                           [r \in {"old"} |-> input.resourceIds],
                           [resourceMutation |-> input.resourceMutation],
                           MutationContext) ]
  /\ UNCHANGED <<input, buildVars, watchVars>>

NextMutation == CallApplyEventDefMutation

SpecMutation == InitMutation /\ [][NextMutation]_vars


\* ---- C26 ----

NoDuplicates(list) == \A j, k \in 1..Len(list) : list[j] = list[k] => j = k

WithoutFirst(list, x) ==
  LET k == CHOOSE i \in 1..Len(list) : list[i] = x /\ \A j \in 1..(i - 1) : list[j] # x
  IN [i \in 1..(Len(list) - 1) |-> IF i < k THEN list[i] ELSE list[i + 1]]

MutationApplies ==
  /\ input.resourceMutation # NoResourceMutation
  /\ computeResourceEditable(MutationEventDef, MutationContext) = "true"
  /\ input.resourceMutation.matchResourceId \in Range(input.resourceIds)

\* C26: when the mutation carries a resource mutation, the event is
\* resource-editable and matchResourceId occurs in resourceIds, the event's
\* resourceIds is a fresh list: the old one without the first matchResourceId,
\* with setResourceId appended unless already there; the old list is not
\* mutated. In every other case the event keeps its list, unchanged.
C26_ResourceIdsMutation ==
  output.called =>
    LET old == input.resourceIds
        ref == output.res.eventDef.resourceIds
        new == output.res.heap[ref]
    IN /\ output.res.heap["old"] = old
       /\ IF MutationApplies
          THEN LET m == input.resourceMutation
                   removed == WithoutFirst(old, m.matchResourceId)
               IN /\ ref # "old"
                  /\ new = IF m.setResourceId \in Range(removed)
                           THEN removed ELSE Append(removed, m.setResourceId)
                  /\ m.setResourceId \in Range(new)
                  /\ NoDuplicates(old) => NoDuplicates(new)
          ELSE ref = "old" /\ DOMAIN output.res.heap = {"old"}

\* matchResourceId occurs twice, and setResourceId is already in the list
C26_Witness ==
  /\ output.called /\ MutationApplies
  /\ input.resourceIds = <<"a", "b", "a">>
  /\ input.resourceMutation = [matchResourceId |-> "a", setResourceId |-> "b"]
  /\ output.res.heap[output.res.eventDef.resourceIds] = <<"b", "a">>

=============================================================================
